---- MODULE Spec2Model ----
(***************************************************************************)
(* Project-management backend (FastAPI + SQLAlchemy): users, projects,     *)
(* swim lanes, tasks, project user-roles and templates.                    *)
(*                                                                         *)
(* Every request handler is a function from (database, request) to         *)
(* (database, response); an action of the model applies one handler to the *)
(* committed database.  A handler that raises HTTPException, or whose      *)
(* commit is rejected by a storage constraint, leaves the database as it   *)
(* was: the request's session is closed without a commit (db.py get_db).   *)
(***************************************************************************)
EXTENDS Integers, Sequences, FiniteSets, TLC

VARIABLES db, last, sess

vars == <<db, last, sess>>

(***************************************************************************)
(* Optional values (Python None / a value) and identifiers.                *)
(***************************************************************************)
None == <<>>
Some(x) == <<x>>
IsSet(o) == o # <<>>
Val(o) == o[1]

\* uuid.uuid4(): an identifier no row of the table has.  Rows are never
\* removed (deletion is soft), so the row count plus one is fresh.
NewId(table) == Cardinality(table) + 1

\* Query.first() on a result set.
First(rows) == CHOOSE r \in rows : TRUE

(***************************************************************************)
(* Bounds of the model.                                                    *)
(***************************************************************************)
\* Commits (successful writes) per run of the user-sync specification.
MaxUserCommits == 3
\* Requests of create_or_update_user in flight at the same time.
MaxSessions == 2
\* Commits (successful writes) per run of the main specification.
MaxCommits == 3

ClerkIds == {"clerk_a", "clerk_b"}

(***************************************************************************)
(* Responses.                                                              *)
(***************************************************************************)
\* A detail is the list of the pieces its text is formatted from.
Ok(status, body) == [status |-> status, detail |-> <<>>, body |-> body]
NotFound(detail) == [status |-> 404, detail |-> <<detail>>, body |-> None]
BadRequest(detail) == [status |-> 400, detail |-> <<detail>>, body |-> None]
\* An exception no handler catches (sqlalchemy.exc.IntegrityError at
\* commit): the framework answers 500.
ServerError == [status |-> 500, detail |-> <<"Internal Server Error">>, body |-> None]

Result(d, resp) == [db |-> d, resp |-> resp]

\* db.commit(): the unit of work writes only what changed; a commit of
\* nothing leaves the storage, and its clock, as they were.
Commit(d, e) == IF [e EXCEPT !.now = d.now] = d THEN d ELSE [e EXCEPT !.now = d.now + 1]

EmptyDb ==
    [users |-> {}, projects |-> {}, swim_lanes |-> {}, user_roles |-> {},
     tasks |-> {}, templates |-> {}, now |-> 1]

NoRequest == [op |-> "none", req |-> None, resp |-> Ok(0, None)]

(***************************************************************************)
(* models.py: the users table and its unique indexes.                      *)
(***************************************************************************)
User(id, data) ==
    [id |-> id, clerk_id |-> data.clerk_id, email |-> data.email,
     first_name |-> data.first_name, last_name |-> data.last_name,
     deleted_at |-> None]

\* Column(unique=True) on clerk_id and on email: the storage rejects a
\* commit that would leave two rows with the same value, deleted or not.
UsersUnique(users) ==
    \A u, v \in users :
        u.id # v.id => u.clerk_id # v.clerk_id /\ u.email # v.email

(***************************************************************************)
(* routers/users.py                                                        *)
(***************************************************************************)
UserCreateInputs ==
    [clerk_id : ClerkIds, email : {"a@x.io", "b@x.io"}, first_name : {None}, last_name : {None}]

\* db.query(User).filter(User.clerk_id == clerk_id)
UsersByClerkId(d, clerk_id) == {u \in d.users : u.clerk_id = clerk_id}

\* The email query with the filter on another column.
UsersByEmailWrongColumn(d, email) == {u \in d.users : u.clerk_id = email}

\* db.query(User).filter(User.email == email): no deleted_at filter.
UsersByEmail(d, email) == {u \in d.users : u.email = email}

\* The update branch on a table without the unique indexes.
UserUpdateUnchecked(d, uid, data) ==
    LET users2 == {IF u.id = uid
                   THEN [u EXCEPT !.email = data.email,
                                  !.first_name = data.first_name,
                                  !.last_name = data.last_name]
                   ELSE u : u \in d.users}
    IN Result(Commit(d, [d EXCEPT !.users = users2]),
              Ok(200, First({u \in users2 : u.id = uid})))

\* The update branch: overwrite the row loaded earlier, commit, refresh.
user_update_commit(d, uid, data) ==
    LET users2 == {IF u.id = uid
                   THEN [u EXCEPT !.email = data.email,
                                  !.first_name = data.first_name,
                                  !.last_name = data.last_name]
                   ELSE u : u \in d.users}
    IN IF ~UsersUnique(users2)
       THEN Result(d, ServerError)
       ELSE Result(Commit(d, [d EXCEPT !.users = users2]),
                   Ok(200, First({u \in users2 : u.id = uid})))

\* The create branch: add the new row, commit, refresh.
user_insert_commit(d, data) ==
    LET row == User(NewId(d.users), data)
    IN IF ~UsersUnique(d.users \cup {row})
       THEN Result(d, ServerError)
       ELSE Result(Commit(d, [d EXCEPT !.users = @ \cup {row}]),
                   Ok(200, row))

get_user_by_clerk_id(d, clerk_id) ==
    LET user == UsersByClerkId(d, clerk_id)
    IN IF user = {}
       THEN Result(d, NotFound("User not found"))
       ELSE Result(d, Ok(200, First(user)))

(***************************************************************************)
(* The caller lookup and the ownership check every handler repeats.        *)
(***************************************************************************)
UserNotSynced ==
    NotFound("User not found. Please ensure your user is synced to the database.")
ProjectNotFound == NotFound("Project not found or you don't have access to it.")

\* Every row, deleted or not.
EvenDeleted(rows) == rows

Live(rows) == {r \in rows : ~IsSet(r.deleted_at)}

\* The project query without the owner filter.
OwnedProjectAnyOwner(d, uid, project_id) ==
    {p \in Live(d.projects) : p.project_id = project_id}

\* db.query(Project).filter(project_id == .., owner_id == user.id,
\*                          deleted_at.is_(None))
OwnedProject(d, uid, project_id) ==
    {p \in Live(d.projects) : p.project_id = project_id /\ p.owner_id = uid}

\* Replace the row with key field k equal to id by the row `new`.
SetRow(rows, k, id, new) == {IF r[k] = id THEN new ELSE r : r \in rows}

Range(seq) == {seq[i] : i \in DOMAIN seq}

\* Project.roles is a nullable JSON list: None, or Some(list).
RolesList(p) == IF IsSet(p.roles) THEN Val(p.roles) ELSE <<>>

(***************************************************************************)
(* routers/projects.py                                                     *)
(***************************************************************************)
Project(id, name, owner_id, roles) ==
    [project_id |-> id, name |-> name, owner_id |-> owner_id, roles |-> roles,
     deleted_at |-> None]

SwimLane(id, project_id, name, order) ==
    [swim_lane_id |-> id, project_id |-> project_id, name |-> name,
     order |-> order, deleted_at |-> None]

\* The default lanes numbered from one.
DefaultSwimLanesFromOne(d, project_id) ==
    LET n == Cardinality(d.swim_lanes)
    IN {SwimLane(n + 1, project_id, "Backlog", 1),
        SwimLane(n + 2, project_id, "To Do", 2),
        SwimLane(n + 3, project_id, "Done", 3)}

\* Backlog, To Do and Done, with the next three lane ids.
DefaultSwimLanes(d, project_id) ==
    LET n == Cardinality(d.swim_lanes)
    IN {SwimLane(n + 1, project_id, "Backlog", 0),
        SwimLane(n + 2, project_id, "To Do", 1),
        SwimLane(n + 3, project_id, "Done", 2)}

get_project(d, c, project_id) ==
    LET user == UsersByClerkId(d, c)
    IN IF user = {} THEN Result(d, UserNotSynced)
       ELSE LET project == OwnedProject(d, First(user).id, project_id)
            IN IF project = {} THEN Result(d, ProjectNotFound)
               ELSE Result(d, Ok(200, First(project)))

\* project_data.model_dump(exclude_unset=True): a field of the patch is
\* None when the request does not carry it, Some(value) when it does.
update_project(d, c, project_id, patch) ==
    LET user == UsersByClerkId(d, c)
    IN IF user = {} THEN Result(d, UserNotSynced)
       ELSE LET project == OwnedProject(d, First(user).id, project_id)
            IN IF project = {} THEN Result(d, ProjectNotFound)
               ELSE LET p == First(project)
                        q == [p EXCEPT
                                !.name = IF IsSet(patch.name) THEN Val(patch.name) ELSE @,
                                !.roles = IF IsSet(patch.roles) THEN Val(patch.roles) ELSE @]
                    IN Result(Commit(d, [d EXCEPT !.projects = SetRow(@, "project_id", project_id, q)]),
                              Ok(200, q))

get_user_projects(d, c) ==
    LET user == UsersByClerkId(d, c)
    IN IF user = {} THEN Result(d, UserNotSynced)
       ELSE Result(d, Ok(200, {p \in Live(d.projects) : p.owner_id = First(user).id}))

create_project(d, c, name) ==
    LET user == UsersByClerkId(d, c)
    IN IF user = {} THEN Result(d, UserNotSynced)
       ELSE LET new_project == Project(NewId(d.projects), name, First(user).id, None)
            IN Result(Commit(d, [d EXCEPT !.projects = @ \cup {new_project},
                                !.swim_lanes = @ \cup DefaultSwimLanes(d, new_project.project_id)]),
                      Ok(201, new_project))

delete_project(d, c, project_id) ==
    LET user == UsersByClerkId(d, c)
    IN IF user = {} THEN Result(d, UserNotSynced)
       ELSE LET project == OwnedProject(d, First(user).id, project_id)
            IN IF project = {} THEN Result(d, ProjectNotFound)
               ELSE Result(Commit(d, [d EXCEPT !.projects = SetRow(@, "project_id", project_id,
                                            [First(project) EXCEPT !.deleted_at = Some(d.now)])]),
                           Ok(204, None))

(***************************************************************************)
(* routers/swim_lanes.py                                                   *)
(***************************************************************************)
verify_project_ownership(d, project_id, c) ==
    LET user == UsersByClerkId(d, c)
    IN IF user = {} THEN Result(d, UserNotSynced)
       ELSE LET project == OwnedProject(d, First(user).id, project_id)
            IN IF project = {} THEN Result(d, ProjectNotFound)
               ELSE Result(d, Ok(200, First(project)))

create_swim_lane(d, c, data) ==
    LET guard == verify_project_ownership(d, data.project_id, c)
    IN IF guard.resp.status # 200 THEN guard
       ELSE LET new_swim_lane == SwimLane(NewId(d.swim_lanes), data.project_id,
                                          data.name, data.order)
            IN Result(Commit(d, [d EXCEPT !.swim_lanes = @ \cup {new_swim_lane}]),
                      Ok(201, new_swim_lane))

\* The lane query without the deleted_at filter.
LiveLaneEvenDeleted(d, swim_lane_id) ==
    {l \in d.swim_lanes : l.swim_lane_id = swim_lane_id}

\* db.query(ProjectSwimLane).filter(swim_lane_id == .., deleted_at.is_(None))
LiveLane(d, swim_lane_id) ==
    {l \in Live(d.swim_lanes) : l.swim_lane_id = swim_lane_id}

\* A handler that replaces the row: a field the request does not carry is
\* written with its default.
ReplaceSwimLane(d, c, swim_lane_id, patch) ==
    LET user == UsersByClerkId(d, c)
    IN IF user = {} THEN Result(d, UserNotSynced)
       ELSE LET swim_lane == LiveLane(d, swim_lane_id)
            IN IF swim_lane = {} THEN Result(d, NotFound("Swim lane not found."))
               ELSE LET l == First(swim_lane)
                        project == OwnedProject(d, First(user).id, l.project_id)
                    IN IF project = {} THEN Result(d, ProjectNotFound)
                       ELSE LET m == [l EXCEPT
                                        !.name = IF IsSet(patch.name) THEN Val(patch.name) ELSE "",
                                        !.order = IF IsSet(patch.order) THEN Val(patch.order) ELSE 0]
                            IN Result(Commit(d, [d EXCEPT !.swim_lanes = SetRow(@, "swim_lane_id", swim_lane_id, m)]),
                                      Ok(200, m))

update_swim_lane(d, c, swim_lane_id, patch) ==
    LET user == UsersByClerkId(d, c)
    IN IF user = {} THEN Result(d, UserNotSynced)
       ELSE LET swim_lane == LiveLane(d, swim_lane_id)
            IN IF swim_lane = {} THEN Result(d, NotFound("Swim lane not found."))
               ELSE LET l == First(swim_lane)
                        project == OwnedProject(d, First(user).id, l.project_id)
                    IN IF project = {} THEN Result(d, ProjectNotFound)
                       ELSE LET m == [l EXCEPT
                                        !.name = IF IsSet(patch.name) THEN Val(patch.name) ELSE @,
                                        !.order = IF IsSet(patch.order) THEN Val(patch.order) ELSE @]
                            IN Result(Commit(d, [d EXCEPT !.swim_lanes = SetRow(@, "swim_lane_id", swim_lane_id, m)]),
                                      Ok(200, m))

delete_swim_lane(d, c, swim_lane_id) ==
    LET user == UsersByClerkId(d, c)
    IN IF user = {} THEN Result(d, UserNotSynced)
       ELSE LET swim_lane == LiveLane(d, swim_lane_id)
            IN IF swim_lane = {} THEN Result(d, NotFound("Swim lane not found."))
               ELSE LET l == First(swim_lane)
                        project == OwnedProject(d, First(user).id, l.project_id)
                    IN IF project = {} THEN Result(d, ProjectNotFound)
                       ELSE Result(Commit(d, [d EXCEPT !.swim_lanes = SetRow(@, "swim_lane_id", swim_lane_id,
                                                    [l EXCEPT !.deleted_at = Some(d.now)])]),
                                   Ok(204, None))

\* GET /api/swim-lanes/project/{project_id}: the non-deleted lanes of a
\* project the caller owns (the response lists them by order).
get_project_swim_lanes(d, c, project_id) ==
    LET guard == verify_project_ownership(d, project_id, c)
    IN IF guard.resp.status # 200 THEN guard
       ELSE Result(d, Ok(200, {l \in Live(d.swim_lanes) : l.project_id = project_id}))

(***************************************************************************)
(* routers/project_user_roles.py                                           *)
(***************************************************************************)
ProjectUserRole(id, project_id, user_id, role) ==
    [id |-> id, project_id |-> project_id, user_id |-> user_id, role |-> role,
     deleted_at |-> None]

\* db.query(ProjectUserRole, User).join(User, user_id == User.id)
get_project_user_roles(d, c, project_id) ==
    LET guard == verify_project_ownership(d, project_id, c)
    IN IF guard.resp.status # 200 THEN guard
       ELSE Result(d, Ok(200,
                {row \in {[user_role |-> ur, user |-> u] :
                            ur \in {r \in Live(d.user_roles) : r.project_id = project_id},
                            u \in d.users} :
                    row.user.id = row.user_role.user_id}))

\* f"Role '{role}' is not defined for this project"
RoleNotDefined(role) ==
    [status |-> 400, detail |-> <<"Role '", role, "' is not defined for this project">>,
     body |-> None]

\* project.roles and role not in project.roles
RoleUndefined(project, role) ==
    RolesList(project) # <<>> /\ role \notin Range(RolesList(project))

\* The duplicate query finding nothing.
ExistingRoleNever(d, project_id, user_id, role, except) == {}

\* The non-deleted rows of the project with this user and role, other than
\* the row `except` (0: none is excepted).
ExistingRole(d, project_id, user_id, role, except) ==
    {r \in Live(d.user_roles) :
        /\ r.project_id = project_id
        /\ r.user_id = user_id
        /\ r.role = role
        /\ r.id # except}

\* The insert behind a uniqueness constraint on (project, user, role) of
\* the non-deleted rows: a second row for a triple fails the commit.
UserRoleInsertUnique(d, data) ==
    IF ExistingRole(d, data.project_id, data.user_id, data.role, 0) # {}
    THEN Result(d, ServerError)
    ELSE LET new_user_role == ProjectUserRole(NewId(d.user_roles), data.project_id,
                                              data.user_id, data.role)
         IN Result(Commit(d, [d EXCEPT !.user_roles = @ \cup {new_user_role}]),
                   Ok(201, new_user_role))

\* db.add(new_user_role); db.commit(): the table has a primary key and no
\* other uniqueness constraint.
user_role_insert(d, data) ==
    LET new_user_role == ProjectUserRole(NewId(d.user_roles), data.project_id,
                                         data.user_id, data.role)
    IN Result(Commit(d, [d EXCEPT !.user_roles = @ \cup {new_user_role}]),
              Ok(201, new_user_role))

create_project_user_role(d, c, project_id, data) ==
    LET guard == verify_project_ownership(d, project_id, c)
    IN IF guard.resp.status # 200 THEN guard
       ELSE IF data.project_id # project_id
       THEN Result(d, BadRequest("Project ID mismatch"))
       ELSE IF RoleUndefined(guard.resp.body, data.role)
       THEN Result(d, RoleNotDefined(data.role))
       ELSE IF {u \in d.users : u.id = data.user_id} = {}
       THEN Result(d, NotFound("User not found"))
       ELSE IF ExistingRole(d, project_id, data.user_id, data.role, 0) # {}
       THEN Result(d, BadRequest("This user already has this role for this project"))
       ELSE user_role_insert(d, data)

\* db.query(ProjectUserRole).filter(id == .., project_id == ..,
\*                                  deleted_at.is_(None))
LiveUserRole(d, project_id, user_role_id) ==
    {r \in Live(d.user_roles) : r.id = user_role_id /\ r.project_id = project_id}

update_project_user_role(d, c, project_id, user_role_id, patch) ==
    LET guard == verify_project_ownership(d, project_id, c)
    IN IF guard.resp.status # 200 THEN guard
       ELSE LET user_role == LiveUserRole(d, project_id, user_role_id)
            IN IF user_role = {} THEN Result(d, NotFound("User role not found"))
               ELSE LET r == First(user_role)
                    IN IF ~IsSet(patch.role)
                       THEN Result(d, Ok(200, r))
                       ELSE IF RoleUndefined(guard.resp.body, Val(patch.role))
                       THEN Result(d, RoleNotDefined(Val(patch.role)))
                       ELSE IF ExistingRole(d, project_id, r.user_id, Val(patch.role),
                                            user_role_id) # {}
                       THEN Result(d, BadRequest("This user already has this role for this project"))
                       ELSE LET q == [r EXCEPT !.role = Val(patch.role)]
                            IN Result(Commit(d, [d EXCEPT !.user_roles = SetRow(@, "id", user_role_id, q)]),
                                      Ok(200, q))

delete_project_user_role(d, c, project_id, user_role_id) ==
    LET guard == verify_project_ownership(d, project_id, c)
    IN IF guard.resp.status # 200 THEN guard
       ELSE LET user_role == LiveUserRole(d, project_id, user_role_id)
            IN IF user_role = {} THEN Result(d, NotFound("User role not found"))
               ELSE Result(Commit(d, [d EXCEPT !.user_roles = SetRow(@, "id", user_role_id,
                                            [First(user_role) EXCEPT !.deleted_at = Some(d.now)])]),
                           Ok(204, None))

(***************************************************************************)
(* routers/tasks.py.  A title is a sequence of characters.                 *)
(***************************************************************************)
Task(id, project_id, swim_lane_id, title, description, assigned_to, created_by) ==
    [task_id |-> id, project_id |-> project_id, project_swim_lane_id |-> swim_lane_id,
     title |-> title, description |-> description, assigned_to |-> assigned_to,
     created_by |-> created_by, deleted_at |-> None]

\* str.strip()
Strip(str) ==
    LET solid == {i \in DOMAIN str : str[i] # " "}
    IN IF solid = {} THEN <<>>
       ELSE SubSeq(str,
                   CHOOSE i \in solid : \A j \in solid : i <= j,
                   CHOOSE i \in solid : \A j \in solid : i >= j)

\* A lookup of the lane by its id alone.
LaneOfAnyProject(d, swim_lane_id, project_id) ==
    {l \in Live(d.swim_lanes) : l.swim_lane_id = swim_lane_id}

\* db.query(ProjectSwimLane).filter(swim_lane_id == .., project_id == ..,
\*                                  deleted_at.is_(None))
LaneOfProject(d, swim_lane_id, project_id) ==
    {l \in Live(d.swim_lanes) :
        l.swim_lane_id = swim_lane_id /\ l.project_id = project_id}

\* db.query(User).filter(User.id == .., User.deleted_at.is_(None))
LiveUserById(d, user_id) == {u \in Live(d.users) : u.id = user_id}

verify_project_and_swim_lane_access(d, project_id, swim_lane_id, c) ==
    LET user == UsersByClerkId(d, c)
    IN IF user = {} THEN Result(d, UserNotSynced)
       ELSE IF OwnedProject(d, First(user).id, project_id) = {}
       THEN Result(d, ProjectNotFound)
       ELSE IF LaneOfProject(d, swim_lane_id, project_id) = {}
       THEN Result(d, NotFound("Swim lane not found or does not belong to the specified project."))
       ELSE Result(d, Ok(200, None))

create_task(d, c, data) ==
    LET user == UsersByClerkId(d, c)
    IN IF user = {} THEN Result(d, UserNotSynced)
       ELSE LET access == verify_project_and_swim_lane_access(
                            d, data.project_id, data.project_swim_lane_id, c)
            IN IF access.resp.status # 200 THEN access
               ELSE IF Strip(data.title) = <<>>
               THEN Result(d, BadRequest("Title is required and cannot be empty."))
               ELSE IF IsSet(data.assigned_to) /\ LiveUserById(d, Val(data.assigned_to)) = {}
               THEN Result(d, BadRequest("Assigned user not found."))
               ELSE LET new_task == Task(NewId(d.tasks), data.project_id,
                                         data.project_swim_lane_id, Strip(data.title),
                                         data.description, data.assigned_to, First(user).id)
                    IN Result(Commit(d, [d EXCEPT !.tasks = @ \cup {new_task}]),
                              Ok(201, new_task))

get_project_tasks(d, c, project_id) ==
    LET user == UsersByClerkId(d, c)
    IN IF user = {} THEN Result(d, UserNotSynced)
       ELSE IF OwnedProject(d, First(user).id, project_id) = {}
       THEN Result(d, ProjectNotFound)
       ELSE Result(d, Ok(200, {t \in Live(d.tasks) : t.project_id = project_id}))

\* A field of the JSON body of a PUT request is absent, null, or a value.
\* TaskUpdate is the request schema: every field is optional with default
\* None, so an absent field and a null field both parse to None.
Absent == [given |-> FALSE, value |-> None]
Null == [given |-> TRUE, value |-> None]

TaskUpdate(body) == [k \in DOMAIN body |-> body[k].value]

\* A field of the patch is None when the request carries no value for it
\* (the handler tests "is not None").  An assignee that is present but
\* falsy (EmptyAssignee) clears the assignment.
EmptyAssignee == 0

\* A session that committed what it holds when it is closed.
SessionCloseCommits(d, pending) == Commit(d, pending)

\* get_db: `finally: db.close()`.  What the request's session holds and has
\* not committed (pending) is discarded; the storage stays d.
SessionClose(d, pending) == d

\* The handler assigns the lane, then the assignee, then the title to the
\* loaded row, each after its own check; a check that fails raises with
\* the earlier assignments pending in the session.
update_task(d, c, task_id, patch) ==
    LET user == UsersByClerkId(d, c)
        task == {t \in Live(d.tasks) : t.task_id = task_id}
    IN IF user = {} THEN Result(d, UserNotSynced)
       ELSE IF task = {} THEN Result(d, NotFound("Task not found."))
       ELSE LET t == First(task)
                with_lane == [t EXCEPT !.project_swim_lane_id =
                                IF IsSet(patch.project_swim_lane_id)
                                THEN Val(patch.project_swim_lane_id) ELSE @]
                with_assignee == [with_lane EXCEPT !.assigned_to =
                                    IF ~IsSet(patch.assigned_to) THEN @
                                    ELSE IF patch.assigned_to = Some(EmptyAssignee) THEN None
                                    ELSE patch.assigned_to]
                q == [with_assignee EXCEPT
                        !.title = IF IsSet(patch.title) THEN Strip(Val(patch.title)) ELSE @,
                        !.description = IF IsSet(patch.description) THEN patch.description ELSE @]
                Pending(row) == [d EXCEPT !.tasks = SetRow(@, "task_id", task_id, row)]
            IN IF OwnedProject(d, First(user).id, t.project_id) = {}
               THEN Result(d, ProjectNotFound)
               ELSE IF /\ IsSet(patch.project_swim_lane_id)
                       /\ LaneOfProject(d, Val(patch.project_swim_lane_id), t.project_id) = {}
               THEN Result(d, BadRequest("Swim lane not found or does not belong to this project."))
               ELSE IF /\ IsSet(patch.assigned_to)
                       /\ patch.assigned_to # Some(EmptyAssignee)
                       /\ LiveUserById(d, Val(patch.assigned_to)) = {}
               THEN Result(SessionClose(d, Pending(with_lane)),
                           BadRequest("Assigned user not found."))
               ELSE IF IsSet(patch.title) /\ Strip(Val(patch.title)) = <<>>
               THEN Result(SessionClose(d, Pending(with_assignee)),
                           BadRequest("Title cannot be empty."))
               ELSE Result(Commit(d, Pending(q)), Ok(200, q))

(***************************************************************************)
(* Cloning: routers/projects.py create_project_from_template and           *)
(* routers/templates.py.                                                   *)
(***************************************************************************)

\* The rows of S as a list by ascending field k; rows that tie on k follow
\* by ascending field id (the order in which they were inserted).
RECURSIVE RowsBy(_, _, _)
RowsBy(S, k, id) ==
    IF S = {} THEN <<>>
    ELSE LET r == CHOOSE x \in S :
                    \A y \in S : x[k] < y[k] \/ (x[k] = y[k] /\ x[id] <= y[id])
         IN <<r>> \o RowsBy(S \ {r}, k, id)

\* .filter(project_id == .., deleted_at.is_(None)).order_by(order).all()
LanesByOrder(d, project_id) ==
    RowsBy({l \in Live(d.swim_lanes) : l.project_id = project_id}, "order", "swim_lane_id")

TasksOf(d, project_id) ==
    RowsBy({t \in Live(d.tasks) : t.project_id = project_id}, "task_id", "task_id")

\* The user-role rows of the project, soft-deleted ones included.
UserRolesOfEvenDeleted(d, project_id) ==
    RowsBy({r \in d.user_roles : r.project_id = project_id}, "id", "id")

\* .filter(project_id == .., deleted_at.is_(None)).all()
UserRolesOf(d, project_id) ==
    RowsBy({r \in Live(d.user_roles) : r.project_id = project_id}, "id", "id")

\* sorted(statuses, key=lambda x: x["order"]): a stable sort.
RECURSIVE SortedByOrder(_)
SortedByOrder(statuses) ==
    IF statuses = <<>> THEN <<>>
    ELSE LET i == CHOOSE a \in DOMAIN statuses :
                    \A b \in DOMAIN statuses :
                        \/ statuses[a].order < statuses[b].order
                        \/ statuses[a].order = statuses[b].order /\ a <= b
         IN <<statuses[i]>> \o
            SortedByOrder([j \in 1..(Len(statuses) - 1) |->
                              IF j < i THEN statuses[j] ELSE statuses[j + 1]])

\* str(uuid) and uuid.UUID(str): the text form of an id, and its parse,
\* which fails (None) on text that is not the form of an id.
UuidStr(id) == <<"uuid", id>>
ParseUuid(text) == IF Len(text) = 2 /\ text[1] = "uuid" THEN Some(text[2]) ELSE None

DefaultStatuses ==
    <<[name |-> "Backlog", order |-> 0], [name |-> "To Do", order |-> 1],
      [name |-> "Done", order |-> 2]>>

\* One new lane per status, inserted in the order of the list.
NewLanes(d, project_id, statuses) ==
    {SwimLane(Cardinality(d.swim_lanes) + i, project_id, statuses[i].name,
              statuses[i].order) : i \in DOMAIN statuses}

\* first_swim_lane_id: the id of the first lane inserted, if any.
FirstNewLane(d, statuses) ==
    IF statuses = <<>> THEN None ELSE Some(Cardinality(d.swim_lanes) + 1)

\* One new user-role row per entry [user_id, role] of the list.
NewUserRoles(d, project_id, entries) ==
    {ProjectUserRole(Cardinality(d.user_roles) + i, project_id, entries[i].user_id,
                     entries[i].role) : i \in DOMAIN entries}

\* One new task per entry [title, description, assigned_to] of the list,
\* all in the lane `lane`.
NewTasks(d, project_id, lane, entries, created_by) ==
    {Task(Cardinality(d.tasks) + i, project_id, lane, entries[i].title,
          entries[i].description, entries[i].assigned_to, created_by) :
        i \in DOMAIN entries}

\* Assignees kept whenever the request asks to keep them.
KeepAssigneesAsAsked(data) == data.keep_assignees

\* Only keep assignees if both keep_assignees and include_users are true.
should_keep_assignees(data) == data.keep_assignees /\ data.include_users

\* The rows a clone of project source_project_id adds to project
\* project_id, read from storage d: copied or default lanes, copied
\* user-roles, copied tasks.
CloneRows(d, source_project_id, project_id, data, uid) ==
    LET source_swim_lanes == LanesByOrder(d, source_project_id)
        statuses == IF data.include_statuses
                    THEN [i \in DOMAIN source_swim_lanes |->
                            [name |-> source_swim_lanes[i].name,
                             order |-> source_swim_lanes[i].order]]
                    ELSE DefaultStatuses
        first_swim_lane_id == FirstNewLane(d, statuses)
        source_user_roles == UserRolesOf(d, source_project_id)
        users == IF data.include_users
                 THEN [i \in DOMAIN source_user_roles |->
                         [user_id |-> source_user_roles[i].user_id,
                          role |-> source_user_roles[i].role]]
                 ELSE <<>>
        source_tasks == TasksOf(d, source_project_id)
        tasks == IF data.include_tasks /\ data.include_statuses /\ IsSet(first_swim_lane_id)
                 THEN [i \in DOMAIN source_tasks |->
                         [title |-> source_tasks[i].title,
                          description |-> source_tasks[i].description,
                          assigned_to |->
                              IF should_keep_assignees(data)
                              THEN source_tasks[i].assigned_to ELSE None]]
                 ELSE <<>>
    IN [swim_lanes |-> NewLanes(d, project_id, statuses),
        user_roles |-> NewUserRoles(d, project_id, users),
        tasks |-> IF tasks = <<>> THEN {}
                  ELSE NewTasks(d, project_id, Val(first_swim_lane_id), tasks, uid)]

\* Storage d with the rows in place of the rows of their tables.
PutRows(d, rows) ==
    [d EXCEPT !.swim_lanes = rows.swim_lanes,
              !.user_roles = rows.user_roles,
              !.tasks = rows.tasks]

\* Storage d with the rows added.
AddRows(d, rows) ==
    [d EXCEPT !.swim_lanes = @ \cup rows.swim_lanes,
              !.user_roles = @ \cup rows.user_roles,
              !.tasks = @ \cup rows.tasks]

create_project_from_template(d, c, data) ==
    LET user == UsersByClerkId(d, c)
    IN IF user = {} THEN Result(d, UserNotSynced)
       ELSE LET source == OwnedProject(d, First(user).id, data.source_project_id)
            IN IF source = {} THEN Result(d, NotFound("Source project not found or you don't have access to it."))
               ELSE
    LET source_project == First(source)
        new_project == Project(NewId(d.projects), data.name, First(user).id,
                               IF data.include_roles THEN source_project.roles ELSE None)
        rows == CloneRows(d, source_project.project_id, new_project.project_id, data,
                          First(user).id)
    IN Result(Commit(d, AddRows([d EXCEPT !.projects = @ \cup {new_project}], rows)),
              Ok(201, new_project))

\* A row of project_templates; statuses, roles, users and tasks are
\* nullable JSON lists.
ProjectTemplate(id, name, description, owner_id, statuses, roles, users, tasks) ==
    [template_id |-> id, name |-> name, description |-> description,
     owner_id |-> owner_id, statuses |-> statuses, roles |-> roles, users |-> users,
     tasks |-> tasks, deleted_at |-> None]

\* Truthiness of a nullable JSON list: set and not empty.
Truthy(o) == IsSet(o) /\ Val(o) # <<>>

\* ProjectTemplate query: template_id, owner_id == user.id, deleted_at None
OwnedTemplate(d, uid, template_id) ==
    {t \in Live(d.templates) : t.template_id = template_id /\ t.owner_id = uid}

get_templates(d, c) ==
    LET user == UsersByClerkId(d, c)
    IN IF user = {} THEN Result(d, UserNotSynced)
       ELSE Result(d, Ok(200, {t \in Live(d.templates) : t.owner_id = First(user).id}))

\* swim_lane_order_map.get(task.project_swim_lane_id, 0)
StatusOrder(source_swim_lanes, swim_lane_id) ==
    LET hit == {i \in DOMAIN source_swim_lanes :
                    source_swim_lanes[i].swim_lane_id = swim_lane_id}
    IN IF hit = {} THEN 0 ELSE source_swim_lanes[CHOOSE i \in hit : TRUE].order

create_template_from_project(d, c, data) ==
    LET user == UsersByClerkId(d, c)
    IN IF user = {} THEN Result(d, UserNotSynced)
       ELSE LET source == OwnedProject(d, First(user).id, data.source_project_id)
            IN IF source = {} THEN Result(d, NotFound("Source project not found or you don't have access to it."))
               ELSE
    LET source_project == First(source)
        source_swim_lanes == LanesByOrder(d, source_project.project_id)
        source_tasks == TasksOf(d, source_project.project_id)
        source_user_roles == UserRolesOf(d, source_project.project_id)
        statuses_data ==
            IF data.include_statuses
            THEN Some([i \in DOMAIN source_swim_lanes |->
                         [name |-> source_swim_lanes[i].name,
                          order |-> source_swim_lanes[i].order]])
            ELSE None
        tasks_data ==
            IF data.include_statuses /\ data.include_tasks
            THEN Some([i \in DOMAIN source_tasks |->
                         [title |-> source_tasks[i].title,
                          description |-> source_tasks[i].description,
                          status_order |->
                              StatusOrder(source_swim_lanes,
                                          source_tasks[i].project_swim_lane_id),
                          assigned_to |->
                              IF should_keep_assignees(data) /\ IsSet(source_tasks[i].assigned_to)
                              THEN Some(UuidStr(Val(source_tasks[i].assigned_to)))
                              ELSE None]])
            ELSE None
        roles_data == IF data.include_roles /\ Truthy(source_project.roles)
                      THEN source_project.roles ELSE None
        users_data ==
            IF data.include_users
            THEN Some([i \in DOMAIN source_user_roles |->
                         [user_id |-> UuidStr(source_user_roles[i].user_id),
                          role |-> source_user_roles[i].role]])
            ELSE None
        new_template == ProjectTemplate(NewId(d.templates), data.name, data.description,
                                        First(user).id, statuses_data, roles_data,
                                        users_data, tasks_data)
    IN Result(Commit(d, [d EXCEPT !.templates = @ \cup {new_template}]),
              Ok(201, new_template))

\* The template's row removed instead of marked.
DeleteTemplateRow(d, c, template_id) ==
    LET user == UsersByClerkId(d, c)
    IN IF user = {} THEN Result(d, UserNotSynced)
       ELSE LET template == OwnedTemplate(d, First(user).id, template_id)
            IN IF template = {} THEN Result(d, NotFound("Template not found or you don't have access to it."))
               ELSE Result(Commit(d, [d EXCEPT !.templates = @ \ template]), Ok(204, None))

delete_template(d, c, template_id) ==
    LET user == UsersByClerkId(d, c)
    IN IF user = {} THEN Result(d, UserNotSynced)
       ELSE LET template == OwnedTemplate(d, First(user).id, template_id)
            IN IF template = {} THEN Result(d, NotFound("Template not found or you don't have access to it."))
               ELSE Result(Commit(d, [d EXCEPT !.templates = SetRow(@, "template_id", template_id,
                                            [First(template) EXCEPT !.deleted_at = Some(d.now)])]),
                           Ok(204, None))

\* The entries of the list whose index is in `keep`, in their order.
RECURSIVE Select(_, _)
Select(list, keep) ==
    IF list = <<>> THEN <<>>
    ELSE Select(SubSeq(list, 1, Len(list) - 1), keep) \o
         (IF Len(list) \in keep THEN <<list[Len(list)]>> ELSE <<>>)

\* The assignee kept whenever it parses, whether or not its user was added.
AssigneeIfParses(data, task_data, valid_user_ids) ==
    IF /\ data.keep_assignees
       /\ IsSet(task_data.assigned_to)
       /\ IsSet(ParseUuid(Val(task_data.assigned_to)))
    THEN ParseUuid(Val(task_data.assigned_to))
    ELSE None

\* The assignee of an expanded task: kept only if requested, the text
\* parses, and the user was added to the project (valid_user_ids).
ExpandedAssignee(data, task_data, valid_user_ids) ==
    IF /\ data.keep_assignees
       /\ IsSet(task_data.assigned_to)
       /\ IsSet(ParseUuid(Val(task_data.assigned_to)))
       /\ Val(ParseUuid(Val(task_data.assigned_to))) \in valid_user_ids
    THEN ParseUuid(Val(task_data.assigned_to))
    ELSE None

\* The rows an expansion of the template adds to project project_id, read
\* from storage d: lanes of the statuses or default lanes, user-roles of
\* the listed users that parse and are not deleted, tasks.
ExpandRows(d, template, project_id, data, uid) ==
    LET statuses == IF Truthy(template.statuses)
                    THEN SortedByOrder(Val(template.statuses))
                    ELSE DefaultStatuses
        first_swim_lane_id == FirstNewLane(d, statuses)
        template_users == IF Truthy(template.users) THEN Val(template.users) ELSE <<>>
        \* entries whose user_id parses and names a non-deleted user
        valid == {i \in DOMAIN template_users :
                    /\ IsSet(ParseUuid(template_users[i].user_id))
                    /\ LiveUserById(d, Val(ParseUuid(template_users[i].user_id))) # {}}
        valid_user_ids == {Val(ParseUuid(template_users[i].user_id)) : i \in valid}
        kept == Select(template_users, valid)
        users == [i \in DOMAIN kept |->
                    [user_id |-> Val(ParseUuid(kept[i].user_id)), role |-> kept[i].role]]
        template_tasks == IF Truthy(template.tasks) /\ IsSet(first_swim_lane_id)
                          THEN Val(template.tasks) ELSE <<>>
        tasks == [i \in DOMAIN template_tasks |->
                    [title |-> template_tasks[i].title,
                     description |-> template_tasks[i].description,
                     assigned_to |->
                        ExpandedAssignee(data, template_tasks[i], valid_user_ids)]]
    IN [swim_lanes |-> NewLanes(d, project_id, statuses),
        user_roles |-> NewUserRoles(d, project_id, users),
        tasks |-> IF tasks = <<>> THEN {}
                  ELSE NewTasks(d, project_id, Val(first_swim_lane_id), tasks, uid)]

create_project_from_saved_template(d, c, data) ==
    LET user == UsersByClerkId(d, c)
    IN IF user = {} THEN Result(d, UserNotSynced)
       ELSE LET found == OwnedTemplate(d, First(user).id, data.template_id)
            IN IF found = {} THEN Result(d, NotFound("Template not found or you don't have access to it."))
               ELSE
    LET template == First(found)
        new_project == Project(NewId(d.projects), data.name, First(user).id, template.roles)
        rows == ExpandRows(d, template, new_project.project_id, data, First(user).id)
    IN Result(Commit(d, AddRows([d EXCEPT !.projects = @ \cup {new_project}], rows)),
              Ok(201, new_project))

(***************************************************************************)
(* create_or_update_user, one request per session.  The handler reads      *)
(* twice and commits once; requests of other sessions may commit between   *)
(* its steps.  pc: "idle", "email_check", "update", "insert".              *)
(***************************************************************************)
Sessions == 1 .. MaxSessions

Idle == [pc |-> "idle", data |-> None, uid |-> 0]

Done(s, r, op) ==
    /\ db' = r.db
    /\ sess' = [sess EXCEPT ![s] = Idle]
    /\ last' = [op |-> op, req |-> sess[s].data, resp |-> r.resp]

\* existing_user = db.query(User).filter(User.clerk_id == ...).first()
UserBegin(s) ==
    /\ sess[s].pc = "idle"
    /\ db.now <= MaxUserCommits
    /\ \E data \in UserCreateInputs :
        LET existing == UsersByClerkId(db, data.clerk_id)
        IN sess' = [sess EXCEPT ![s] =
                [pc |-> IF existing # {} THEN "update" ELSE "email_check",
                 data |-> data,
                 uid |-> IF existing # {} THEN First(existing).id ELSE 0]]
    /\ UNCHANGED <<db, last>>

\* email_exists = db.query(User).filter(User.email == ...).first()
UserEmailCheck(s) ==
    /\ sess[s].pc = "email_check"
    /\ IF UsersByEmail(db, sess[s].data.email) # {}
       THEN Done(s, Result(db, BadRequest("User with this email already exists")),
                 "create_or_update_user")
       ELSE /\ sess' = [sess EXCEPT ![s].pc = "insert"]
            /\ UNCHANGED <<db, last>>

UserCommit(s) ==
    /\ sess[s].pc \in {"update", "insert"}
    /\ Done(s,
            IF sess[s].pc = "update"
            THEN user_update_commit(db, sess[s].uid, sess[s].data)
            ELSE user_insert_commit(db, sess[s].data),
            "create_or_update_user")

GetUserByClerkId ==
    /\ \E clerk_id \in ClerkIds :
        LET r == get_user_by_clerk_id(db, clerk_id)
        IN last' = [op |-> "get_user_by_clerk_id", req |-> clerk_id, resp |-> r.resp]
    /\ UNCHANGED <<db, sess>>

\* A user row marked deleted.  No endpoint does it; the operations side
\* sets users.deleted_at directly (the tests seed such rows).
SoftDeleteUser(limit) ==
    /\ db.now <= limit
    /\ \E u \in db.users :
        /\ ~IsSet(u.deleted_at)
        /\ db' = [db EXCEPT !.users = (@ \ {u}) \cup {[u EXCEPT !.deleted_at = Some(db.now)]},
                            !.now = @ + 1]
    /\ last' = [op |-> "soft_delete_user", req |-> None, resp |-> Ok(0, None)]
    /\ UNCHANGED sess

InitUsers ==
    /\ db = EmptyDb
    /\ last = NoRequest
    /\ sess = [s \in Sessions |-> Idle]

NextUsers ==
    \/ \E s \in Sessions : UserBegin(s)
    \/ \E s \in Sessions : UserEmailCheck(s)
    \/ \E s \in Sessions : UserCommit(s)
    \/ GetUserByClerkId
    \/ SoftDeleteUser(MaxUserCommits)

SpecUsers == InitUsers /\ [][NextUsers]_vars

(***************************************************************************)
(* The project API.  Two users are provisioned; each step is one request   *)
(* handled to completion.  A handler that writes needs commit budget.      *)
(***************************************************************************)
SeedDb ==
    LET one == user_insert_commit(EmptyDb,
                   [clerk_id |-> "clerk_a", email |-> "a@x.io", first_name |-> None,
                    last_name |-> None]).db
    IN user_insert_commit(one, [clerk_id |-> "clerk_b", email |-> "b@x.io", first_name |-> None,
                         last_name |-> None]).db

LastCommit == SeedDb.now + MaxCommits - 1

\* Requests are served one at a time: `last` is the response on its way to
\* the client, and the next request comes once the client has taken it.
Respond(op, req, r) ==
    /\ last = NoRequest
    /\ r.db # db => db.now <= LastCommit
    /\ db' = r.db
    /\ last' = [op |-> op, req |-> req, resp |-> r.resp]
    /\ UNCHANGED sess

\* Ids a request can name: those of the rows, and one that names no row.
UserIds == 1 .. NewId(db.users)
ProjectIds == 1 .. NewId(db.projects)
LaneIds == 1 .. NewId(db.swim_lanes)
UserRoleIds == 1 .. NewId(db.user_roles)
TemplateIds == 1 .. NewId(db.templates)

Callers == ClerkIds
RoleNames == {"dev", "qa"}
ProjectPatches ==
    {[name |-> Some("Q"), roles |-> None],
     [name |-> None, roles |-> Some(Some(<<"dev">>))],
     [name |-> None, roles |-> Some(Some(<<>>))]}
NoTaskPatch ==
    [project_swim_lane_id |-> None, assigned_to |-> None, title |-> None,
     description |-> None]
TaskPatches ==
    {[NoTaskPatch EXCEPT !.project_swim_lane_id = Some(l)] : l \in LaneIds}
    \cup {[NoTaskPatch EXCEPT !.assigned_to = Some(u)] : u \in {EmptyAssignee} \cup UserIds}
    \cup {[NoTaskPatch EXCEPT !.title = Some(t)] : t \in {<<"t">>, <<" ">>}}
    \cup {[NoTaskPatch EXCEPT !.description = Some("d")]}
    \* a valid lane or assignee together with a field that is checked later
    \cup {[NoTaskPatch EXCEPT !.project_swim_lane_id = Some(1),
                              !.assigned_to = Some(NewId(db.users))],
          [NoTaskPatch EXCEPT !.project_swim_lane_id = Some(1), !.assigned_to = Some(1),
                              !.title = Some(<<" ">>)],
          [NoTaskPatch EXCEPT !.assigned_to = Some(1), !.title = Some(<<" ">>)]}
\* The bodies that parse to TaskPatches, and the body whose assignee is null.
TaskBodies ==
    {[k \in DOMAIN patch |->
            IF IsSet(patch[k]) THEN [given |-> TRUE, value |-> patch[k]] ELSE Absent] :
        patch \in TaskPatches}
    \cup {[k \in DOMAIN NoTaskPatch |-> IF k = "assigned_to" THEN Null ELSE Absent]}
\* Flag vectors of a clone or snapshot request.
Flags(st, ro, us, ta, ka) ==
    [include_statuses |-> st, include_roles |-> ro, include_users |-> us,
     include_tasks |-> ta, keep_assignees |-> ka]
CloneOptions ==
    {Flags(FALSE, FALSE, FALSE, FALSE, FALSE), Flags(TRUE, TRUE, TRUE, TRUE, TRUE),
     Flags(TRUE, FALSE, FALSE, TRUE, TRUE), Flags(FALSE, TRUE, TRUE, TRUE, FALSE),
     Flags(TRUE, TRUE, FALSE, FALSE, FALSE), Flags(TRUE, FALSE, TRUE, TRUE, FALSE)}

GetProject ==
    \E c \in Callers, project_id \in ProjectIds :
        Respond("get_project", [caller |-> c, project_id |-> project_id],
                get_project(db, c, project_id))

UpdateProject ==
    \E c \in Callers, project_id \in ProjectIds, patch \in ProjectPatches :
        Respond("update_project", [caller |-> c, project_id |-> project_id, patch |-> patch],
                update_project(db, c, project_id, patch))

GetUserProjects ==
    \E c \in Callers :
        Respond("get_user_projects", [caller |-> c], get_user_projects(db, c))

CreateProject ==
    \E c \in Callers :
        Respond("create_project", [caller |-> c, name |-> "P"], create_project(db, c, "P"))

CreateProjectFromTemplate ==
    \E c \in Callers, project_id \in ProjectIds, o \in CloneOptions :
        LET data == [name |-> "P", source_project_id |-> project_id,
                     include_statuses |-> o.include_statuses,
                     include_roles |-> o.include_roles,
                     include_users |-> o.include_users,
                     include_tasks |-> o.include_tasks,
                     keep_assignees |-> o.keep_assignees]
        IN Respond("create_project_from_template", [caller |-> c, data |-> data],
                   create_project_from_template(db, c, data))

DeleteProject ==
    \E c \in Callers, project_id \in ProjectIds :
        Respond("delete_project", [caller |-> c, project_id |-> project_id],
                delete_project(db, c, project_id))

CreateSwimLane ==
    \E c \in Callers, project_id \in ProjectIds :
        LET data == [project_id |-> project_id, name |-> "Review", order |-> 0]
        IN Respond("create_swim_lane", [caller |-> c, data |-> data],
                   create_swim_lane(db, c, data))

UpdateSwimLane ==
    \E c \in Callers, swim_lane_id \in LaneIds,
       patch \in {[name |-> Some("Review"), order |-> None],
                  [name |-> None, order |-> Some(0)]} :
        Respond("update_swim_lane",
                [caller |-> c, swim_lane_id |-> swim_lane_id, patch |-> patch],
                update_swim_lane(db, c, swim_lane_id, patch))

DeleteSwimLane ==
    \E c \in Callers, swim_lane_id \in LaneIds :
        Respond("delete_swim_lane", [caller |-> c, swim_lane_id |-> swim_lane_id],
                delete_swim_lane(db, c, swim_lane_id))

GetProjectSwimLanes ==
    \E c \in Callers, project_id \in ProjectIds :
        Respond("get_project_swim_lanes", [caller |-> c, project_id |-> project_id],
                get_project_swim_lanes(db, c, project_id))

GetProjectUserRoles ==
    \E c \in Callers, project_id \in ProjectIds :
        Respond("get_project_user_roles", [caller |-> c, project_id |-> project_id],
                get_project_user_roles(db, c, project_id))

CreateProjectUserRole ==
    \E c \in Callers, project_id \in ProjectIds, body_project_id \in ProjectIds,
       user_id \in UserIds, role \in RoleNames :
        LET data == [project_id |-> body_project_id, user_id |-> user_id, role |-> role]
        IN Respond("create_project_user_role",
                   [caller |-> c, project_id |-> project_id, data |-> data],
                   create_project_user_role(db, c, project_id, data))

UpdateProjectUserRole ==
    \E c \in Callers, project_id \in ProjectIds, user_role_id \in UserRoleIds,
       role \in {None} \cup {Some(r) : r \in RoleNames} :
        Respond("update_project_user_role",
                [caller |-> c, project_id |-> project_id, user_role_id |-> user_role_id,
                 patch |-> [role |-> role]],
                update_project_user_role(db, c, project_id, user_role_id, [role |-> role]))

DeleteProjectUserRole ==
    \E c \in Callers, project_id \in ProjectIds, user_role_id \in UserRoleIds :
        Respond("delete_project_user_role",
                [caller |-> c, project_id |-> project_id, user_role_id |-> user_role_id],
                delete_project_user_role(db, c, project_id, user_role_id))

CreateTask ==
    \E c \in Callers, project_id \in ProjectIds, swim_lane_id \in LaneIds,
       i \in {[title |-> <<"t">>, assigned_to |-> None],
              [title |-> <<" ">>, assigned_to |-> None]}
             \cup {[title |-> <<"t">>, assigned_to |-> Some(u)] : u \in {1, NewId(db.users)}} :
        LET data == [project_id |-> project_id, project_swim_lane_id |-> swim_lane_id,
                     title |-> i.title, description |-> None, assigned_to |-> i.assigned_to]
        IN Respond("create_task", [caller |-> c, data |-> data], create_task(db, c, data))

GetProjectTasks ==
    \E c \in Callers, project_id \in ProjectIds :
        Respond("get_project_tasks", [caller |-> c, project_id |-> project_id],
                get_project_tasks(db, c, project_id))

UpdateTask ==
    \E c \in Callers, task_id \in 1 .. NewId(db.tasks), body \in TaskBodies :
        LET patch == TaskUpdate(body)
        IN Respond("update_task",
                   [caller |-> c, task_id |-> task_id, body |-> body, patch |-> patch],
                   update_task(db, c, task_id, patch))

GetTemplates ==
    \E c \in Callers : Respond("get_templates", [caller |-> c], get_templates(db, c))

CreateTemplateFromProject ==
    \E c \in Callers, project_id \in ProjectIds, o \in CloneOptions :
        LET data == [name |-> "T", description |-> Some("d"),
                     source_project_id |-> project_id,
                     include_statuses |-> o.include_statuses,
                     include_roles |-> o.include_roles,
                     include_users |-> o.include_users,
                     include_tasks |-> o.include_tasks,
                     keep_assignees |-> o.keep_assignees]
        IN Respond("create_template_from_project", [caller |-> c, data |-> data],
                   create_template_from_project(db, c, data))

DeleteTemplate ==
    \E c \in Callers, template_id \in TemplateIds :
        Respond("delete_template", [caller |-> c, template_id |-> template_id],
                delete_template(db, c, template_id))

CreateProjectFromSavedTemplate ==
    \E c \in Callers, template_id \in TemplateIds, keep_assignees \in BOOLEAN :
        LET data == [name |-> "P", template_id |-> template_id,
                     keep_assignees |-> keep_assignees]
        IN Respond("create_project_from_saved_template", [caller |-> c, data |-> data],
                   create_project_from_saved_template(db, c, data))

Deliver ==
    /\ last # NoRequest
    /\ last' = NoRequest
    /\ UNCHANGED <<db, sess>>

Init ==
    /\ db = SeedDb
    /\ last = NoRequest
    /\ sess = [s \in Sessions |-> Idle]

Next ==
    \/ GetProject
    \/ UpdateProject
    \/ GetUserProjects
    \/ CreateProject
    \/ CreateProjectFromTemplate
    \/ DeleteProject
    \/ CreateSwimLane
    \/ UpdateSwimLane
    \/ DeleteSwimLane
    \/ GetProjectSwimLanes
    \/ GetProjectUserRoles
    \/ CreateProjectUserRole
    \/ UpdateProjectUserRole
    \/ DeleteProjectUserRole
    \/ CreateTask
    \/ GetProjectTasks
    \/ UpdateTask
    \/ GetTemplates
    \/ CreateTemplateFromProject
    \/ DeleteTemplate
    \/ CreateProjectFromSavedTemplate
    \/ Deliver

Spec == Init /\ [][Next]_vars

\* The same API next to an operator who marks users deleted.
NextSoftDelete ==
    \/ SoftDeleteUser(LastCommit)
    \/ GetUserByClerkId
    \/ CreateProject
    \/ GetProject
    \/ CreateProjectUserRole
    \/ GetProjectUserRoles
    \/ Deliver

SpecSoftDelete == Init /\ [][NextSoftDelete]_vars

(***************************************************************************)
(* Claims about the users table (checked under SpecUsers).                 *)
(***************************************************************************)
LiveUsers(d) == {u \in d.users : ~IsSet(u.deleted_at)}

\* The non-deleted users that hold the email.
UsersByEmailLive(d, email) == {u \in LiveUsers(d) : u.email = email}

\* Session s answers its request in this step.
Answers(s) == sess[s].pc # "idle" /\ sess'[s].pc = "idle"

UniqueClerkId == \A u, v \in db.users : u.clerk_id = v.clerk_id => u.id = v.id

\* C4: at most one user row per external identity, and every
\* create_or_update_user request whose first query found a row for its
\* external identity is answered with that row's id.
C4_UpsertReturnsExistingId ==
    /\ []UniqueClerkId
    /\ [][\A s \in Sessions :
            (Answers(s) /\ sess[s].pc = "update") =>
                /\ last'.resp.status = 200
                /\ last'.resp.body.id = sess[s].uid]_vars

\* C5: a create_or_update_user request for an external identity without a
\* row, whose email a non-deleted user holds when the handler checks it, is
\* answered 400 "User with this email already exists" and writes nothing.
C5_DuplicateEmailRejected ==
    [][\A s \in Sessions :
        (/\ sess[s].pc = "email_check"
         /\ sess'[s].pc # "email_check"
         /\ UsersByEmailLive(db, sess[s].data.email) # {}) =>
            /\ sess'[s].pc = "idle"
            /\ last'.op = "create_or_update_user"
            /\ last'.req = sess[s].data
            /\ last'.resp = BadRequest("User with this email already exists")
            /\ db' = db]_vars

C5_Witness ==
    /\ last.op = "create_or_update_user"
    /\ last.resp.status = 400
    /\ UsersByClerkId(db, last.req.clerk_id) = {}
    /\ UsersByEmailLive(db, last.req.email) # {}

\* C6: the email-uniqueness check of create_or_update_user considers only
\* non-deleted users: a request for an external identity without a row is
\* refused for its email only when a non-deleted user holds that email.
C6_DeletedEmailReusable ==
    (/\ last.op = "create_or_update_user"
     /\ last.resp.status = 400
     /\ UsersByClerkId(db, last.req.clerk_id) = {}) =>
        UsersByEmailLive(db, last.req.email) # {}

\* C7: no two non-deleted users have the same email.
C7_LiveEmailsUnique ==
    \A u, v \in LiveUsers(db) : u.id # v.id => u.email # v.email

\* The update branch tried to give a user the email of another user.
C7_Witness ==
    /\ last.op = "create_or_update_user"
    /\ last.resp.status = 500
    /\ \E u, v \in LiveUsers(db) :
        /\ u.id # v.id
        /\ u.clerk_id = last.req.clerk_id
        /\ v.email = last.req.email

(***************************************************************************)
(* Claims about the project API (checked under Spec).  In a step that      *)
(* answers a request, last' is the request with its response, db the       *)
(* storage before it and db' the storage after it.                         *)
(***************************************************************************)
Answered == last = NoRequest /\ last' # NoRequest

\* The id of the (provisioned) caller of request l.
CallerId(l) == First(UsersByClerkId(db, l.req.caller)).id

\* Rows that exist and belong to a project, or are a template, of somebody
\* other than user uid.
ForeignProject(uid, project_id) ==
    \E p \in db.projects : p.project_id = project_id /\ p.owner_id # uid
ForeignLane(uid, swim_lane_id) ==
    \E l \in db.swim_lanes :
        l.swim_lane_id = swim_lane_id /\ ForeignProject(uid, l.project_id)
ForeignTask(uid, task_id) ==
    \E t \in db.tasks : t.task_id = task_id /\ ForeignProject(uid, t.project_id)
ForeignUserRole(uid, user_role_id) ==
    \E r \in db.user_roles : r.id = user_role_id /\ ForeignProject(uid, r.project_id)
ForeignTemplate(uid, template_id) ==
    \E t \in db.templates : t.template_id = template_id /\ t.owner_id # uid

\* Request l addresses (as the resource it reads or writes) something of
\* another user.
AddressesForeign(l) ==
    LET uid == CallerId(l)
    IN CASE l.op \in {"get_project", "update_project", "delete_project",
                      "get_project_tasks", "get_project_user_roles"} ->
                ForeignProject(uid, l.req.project_id)
         [] l.op = "create_swim_lane" -> ForeignProject(uid, l.req.data.project_id)
         [] l.op \in {"update_swim_lane", "delete_swim_lane"} ->
                ForeignLane(uid, l.req.swim_lane_id)
         [] l.op = "create_task" ->
                \/ ForeignProject(uid, l.req.data.project_id)
                \/ ForeignLane(uid, l.req.data.project_swim_lane_id)
         [] l.op = "update_task" -> ForeignTask(uid, l.req.task_id)
         [] l.op = "create_project_user_role" -> ForeignProject(uid, l.req.project_id)
         [] l.op \in {"update_project_user_role", "delete_project_user_role"} ->
                \/ ForeignProject(uid, l.req.project_id)
                \/ ForeignUserRole(uid, l.req.user_role_id)
         [] l.op \in {"create_template_from_project", "create_project_from_template"} ->
                ForeignProject(uid, l.req.data.source_project_id)
         [] l.op \in {"delete_template", "create_project_from_saved_template"} ->
                ForeignTemplate(uid, IF l.op = "delete_template" THEN l.req.template_id
                                     ELSE l.req.data.template_id)
         [] OTHER -> FALSE

\* Request l names something of another user only as a value to store: the
\* new lane of a task, or the project id in the body of a new user-role.
StoresForeign(l) ==
    LET uid == CallerId(l)
    IN CASE l.op = "update_task" ->
                /\ IsSet(l.req.patch.project_swim_lane_id)
                /\ ForeignLane(uid, Val(l.req.patch.project_swim_lane_id))
         [] l.op = "create_project_user_role" ->
                ForeignProject(uid, l.req.data.project_id)
         [] OTHER -> FALSE

NamesForeign(l) == AddressesForeign(l) \/ StoresForeign(l)

\* C1 (as stated): a request of any handler that names a project, lane,
\* task, user-role or template of another user ends in NotFound (404) and
\* changes no stored row.
C1_ForeignIsNotFound ==
    [][(Answered /\ NamesForeign(last')) =>
            (last'.resp.status = 404 /\ db' = db)]_vars

\* The resource request l addresses is the caller's own and not deleted.
AddressesOwnLive(l) ==
    LET uid == CallerId(l)
    IN CASE l.op = "update_task" ->
                \E t \in Live(db.tasks) :
                    t.task_id = l.req.task_id /\ OwnedProject(db, uid, t.project_id) # {}
         [] l.op = "create_project_user_role" ->
                OwnedProject(db, uid, l.req.project_id) # {}
         [] OTHER -> FALSE

\* C1 (amended): such a request changes no stored row and ends in NotFound
\* (404), except that it ends in BadRequest (400) when the foreign lane or
\* project is only a value to store on a non-deleted resource of the
\* caller (the new lane of update_task, the body project id of
\* create_project_user_role).
C1_ForeignIsRejected ==
    [][(Answered /\ NamesForeign(last')) =>
            /\ db' = db
            /\ last'.resp.status =
                    IF ~AddressesForeign(last') /\ AddressesOwnLive(last')
                    THEN 400 ELSE 404]_vars

\* A non-owner who holds a user-role on the project is refused a write.
C1_Witness ==
    /\ last.op \in {"delete_project", "update_swim_lane", "update_task",
                    "delete_template", "delete_project_user_role"}
    /\ AddressesForeign(last)
    /\ last.resp.status = 404
    /\ \E r \in Live(db.user_roles) :
        r.user_id = CallerId(last) /\ ForeignProject(CallerId(last), r.project_id)

\* The handler of request l run on storage d.
Handle(d, l) ==
    LET c == l.req.caller
        q == l.req
    IN CASE l.op = "get_project" -> get_project(d, c, q.project_id)
         [] l.op = "update_project" -> update_project(d, c, q.project_id, q.patch)
         [] l.op = "get_user_projects" -> get_user_projects(d, c)
         [] l.op = "create_project" -> create_project(d, c, q.name)
         [] l.op = "create_project_from_template" -> create_project_from_template(d, c, q.data)
         [] l.op = "delete_project" -> delete_project(d, c, q.project_id)
         [] l.op = "create_swim_lane" -> create_swim_lane(d, c, q.data)
         [] l.op = "update_swim_lane" -> update_swim_lane(d, c, q.swim_lane_id, q.patch)
         [] l.op = "delete_swim_lane" -> delete_swim_lane(d, c, q.swim_lane_id)
         [] l.op = "get_project_swim_lanes" -> get_project_swim_lanes(d, c, q.project_id)
         [] l.op = "get_project_user_roles" -> get_project_user_roles(d, c, q.project_id)
         [] l.op = "create_project_user_role" ->
                create_project_user_role(d, c, q.project_id, q.data)
         [] l.op = "update_project_user_role" ->
                update_project_user_role(d, c, q.project_id, q.user_role_id, q.patch)
         [] l.op = "delete_project_user_role" ->
                delete_project_user_role(d, c, q.project_id, q.user_role_id)
         [] l.op = "create_task" -> create_task(d, c, q.data)
         [] l.op = "get_project_tasks" -> get_project_tasks(d, c, q.project_id)
         [] l.op = "update_task" -> update_task(d, c, q.task_id, q.patch)
         [] l.op = "get_templates" -> get_templates(d, c)
         [] l.op = "create_template_from_project" ->
                create_template_from_project(d, c, q.data)
         [] l.op = "delete_template" -> delete_template(d, c, q.template_id)
         [] l.op = "create_project_from_saved_template" ->
                create_project_from_saved_template(d, c, q.data)

\* Request l with every id that names something of another user replaced
\* by an id of the same kind that names nothing.
NoProject(uid, id) == IF ForeignProject(uid, id) THEN NewId(db.projects) ELSE id
NoLane(uid, id) == IF ForeignLane(uid, id) THEN NewId(db.swim_lanes) ELSE id
NoTask(uid, id) == IF ForeignTask(uid, id) THEN NewId(db.tasks) ELSE id
NoUserRole(uid, id) == IF ForeignUserRole(uid, id) THEN NewId(db.user_roles) ELSE id
NoTemplate(uid, id) == IF ForeignTemplate(uid, id) THEN NewId(db.templates) ELSE id

Ghosted(l) ==
    LET uid == CallerId(l)
        q == l.req
    IN [l EXCEPT !.req =
        CASE l.op \in {"get_project", "update_project", "delete_project",
                       "get_project_tasks", "get_project_user_roles"} ->
                [q EXCEPT !.project_id = NoProject(uid, @)]
          [] l.op = "create_swim_lane" ->
                [q EXCEPT !.data.project_id = NoProject(uid, @)]
          [] l.op \in {"update_swim_lane", "delete_swim_lane"} ->
                [q EXCEPT !.swim_lane_id = NoLane(uid, @)]
          [] l.op = "create_task" ->
                [q EXCEPT !.data.project_id = NoProject(uid, @),
                          !.data.project_swim_lane_id = NoLane(uid, @)]
          [] l.op = "update_task" ->
                [q EXCEPT !.task_id = NoTask(uid, @),
                          !.patch.project_swim_lane_id =
                              IF IsSet(@) THEN Some(NoLane(uid, Val(@))) ELSE @]
          [] l.op = "create_project_user_role" ->
                [q EXCEPT !.project_id = NoProject(uid, @),
                          !.data.project_id = NoProject(uid, @)]
          [] l.op \in {"update_project_user_role", "delete_project_user_role"} ->
                [q EXCEPT !.project_id = NoProject(uid, @),
                          !.user_role_id = NoUserRole(uid, @)]
          [] l.op \in {"create_template_from_project", "create_project_from_template"} ->
                [q EXCEPT !.data.source_project_id = NoProject(uid, @)]
          [] l.op = "delete_template" -> [q EXCEPT !.template_id = NoTemplate(uid, @)]
          [] l.op = "create_project_from_saved_template" ->
                [q EXCEPT !.data.template_id = NoTemplate(uid, @)]
          [] OTHER -> q]

\* C2: the response (status and detail) to a request that names a resource
\* of another user is the response to the same request naming a resource
\* that does not exist.
C2_ForeignLooksAbsent ==
    (last # NoRequest /\ NamesForeign(last)) =>
        LET absent == Handle(db, Ghosted(last)).resp
        IN last.resp.status = absent.status /\ last.resp.detail = absent.detail

\* The request the claim fails on: update or delete of a lane, or update of
\* a task, of another user's project.
C2_Witness ==
    /\ last.op \in {"update_swim_lane", "delete_swim_lane", "update_task"}
    /\ AddressesForeign(last)
    /\ last.resp.detail # Handle(db, Ghosted(last)).resp.detail

\* C3: after create_project the new project is owned by the caller, has
\* exactly three non-deleted swim lanes, Backlog, To Do and Done with order
\* 0, 1 and 2, and has no task, no user-role and no roles list.
C3_CreateProjectDefaults ==
    last.op = "create_project" =>
        /\ last.resp.status = 201
        /\ LET p == last.resp.body
               lanes == {l \in Live(db.swim_lanes) : l.project_id = p.project_id}
           IN /\ p \in Live(db.projects)
              /\ p.owner_id = CallerId(last)
              /\ Cardinality(lanes) = 3
              /\ {<<l.name, l.order>> : l \in lanes} =
                    {<<"Backlog", 0>>, <<"To Do", 1>>, <<"Done", 2>>}
              /\ \A t \in db.tasks : t.project_id # p.project_id
              /\ \A r \in db.user_roles : r.project_id # p.project_id
              /\ p.roles = None

\* A project created when the storage already holds a project with its
\* lanes and a task.
C3_Witness ==
    /\ last.op = "create_project"
    /\ last.resp.status = 201
    /\ Cardinality(db.projects) > 1
    /\ db.tasks # {}

\* Rows that are soft-deleted, or belong to a soft-deleted project.
DeletedProject(project_id) ==
    \E p \in db.projects : p.project_id = project_id /\ IsSet(p.deleted_at)
GoneLane(swim_lane_id) ==
    \E l \in db.swim_lanes :
        /\ l.swim_lane_id = swim_lane_id
        /\ IsSet(l.deleted_at) \/ DeletedProject(l.project_id)
GoneTask(task_id) ==
    \E t \in db.tasks : t.task_id = task_id /\ DeletedProject(t.project_id)
GoneUserRole(user_role_id) ==
    \E r \in db.user_roles :
        /\ r.id = user_role_id
        /\ IsSet(r.deleted_at) \/ DeletedProject(r.project_id)
DeletedTemplate(template_id) ==
    \E t \in db.templates : t.template_id = template_id /\ IsSet(t.deleted_at)

\* Update or delete request l addresses such a row.
AddressesGone(l) ==
    CASE l.op \in {"update_project", "delete_project"} -> DeletedProject(l.req.project_id)
      [] l.op \in {"update_swim_lane", "delete_swim_lane"} -> GoneLane(l.req.swim_lane_id)
      [] l.op = "update_task" -> GoneTask(l.req.task_id)
      [] l.op \in {"update_project_user_role", "delete_project_user_role"} ->
            DeletedProject(l.req.project_id) \/ GoneUserRole(l.req.user_role_id)
      [] l.op = "delete_template" -> DeletedTemplate(l.req.template_id)
      [] OTHER -> FALSE

\* Update request l names such a row only as a value to store: the new
\* lane of a task.
StoresGone(l) ==
    /\ l.op = "update_task"
    /\ IsSet(l.req.patch.project_swim_lane_id)
    /\ GoneLane(Val(l.req.patch.project_swim_lane_id))

\* Lookup or list request l asks for a soft-deleted project or template, or
\* for the rows of a soft-deleted project.
LooksUpGone(l) ==
    CASE l.op \in {"get_project", "get_project_swim_lanes", "get_project_tasks",
                   "get_project_user_roles"} -> DeletedProject(l.req.project_id)
      [] l.op \in {"create_template_from_project", "create_project_from_template"} ->
            DeletedProject(l.req.data.source_project_id)
      [] l.op = "create_project_from_saved_template" ->
            DeletedTemplate(l.req.data.template_id)
      [] OTHER -> FALSE

\* The answer l of a lookup or list handler holds no soft-deleted row.
ReturnsNoDeleted(l) ==
    l.resp.status = 200 =>
        CASE l.op = "get_project" -> ~IsSet(l.resp.body.deleted_at)
          [] l.op \in {"get_user_projects", "get_project_swim_lanes", "get_templates"} ->
                \A r \in l.resp.body : ~IsSet(r.deleted_at)
          [] l.op = "get_project_user_roles" ->
                \A r \in l.resp.body : ~IsSet(r.user_role.deleted_at)
          [] OTHER -> TRUE

\* C8 (as stated): no lookup or list returns a soft-deleted lane, user-role,
\* project or template, and every update or delete request that names one
\* (or a lane, task or user-role of a soft-deleted project) ends in
\* NotFound (404) and changes no stored row.
C8_DeletedIsNotFound ==
    [][Answered =>
        /\ ReturnsNoDeleted(last')
        /\ (AddressesGone(last') \/ StoresGone(last') \/ LooksUpGone(last')) =>
                (last'.resp.status = 404 /\ db' = db)]_vars

\* C8 (amended): as stated for the requests that address the soft-deleted
\* row; update_task naming a soft-deleted lane (or a lane of a soft-deleted
\* project) as the new lane of a non-deleted task of the caller ends in
\* BadRequest (400), and changes no stored row.
C8_DeletedIsRejected ==
    [][Answered =>
        /\ ReturnsNoDeleted(last')
        /\ (AddressesGone(last') \/ LooksUpGone(last')) =>
                (last'.resp.status = 404 /\ db' = db)
        /\ StoresGone(last') =>
                /\ db' = db
                /\ last'.resp.status =
                        IF AddressesOwnLive(last') THEN 400 ELSE 404]_vars

\* The owner updates or deletes a lane they deleted before.
C8_Witness ==
    /\ last.op \in {"update_swim_lane", "delete_swim_lane"}
    /\ last.resp.status = 404
    /\ \E l \in db.swim_lanes :
        /\ l.swim_lane_id = last.req.swim_lane_id
        /\ IsSet(l.deleted_at)
        /\ OwnedProject(db, CallerId(last), l.project_id) # {}

\* (a) the roles list of project p is non-empty and lacks the role.
NotInRolesList(p, role) ==
    IsSet(p.roles) /\ Val(p.roles) # <<>> /\ \A i \in DOMAIN Val(p.roles) : Val(p.roles)[i] # role

\* (b) a non-deleted user-role row other than `except` has the triple.
TripleTaken(project_id, user_id, role, except) ==
    \E r \in db.user_roles :
        /\ ~IsSet(r.deleted_at)
        /\ r.id # except
        /\ <<r.project_id, r.user_id, r.role>> = <<project_id, user_id, role>>

\* The non-deleted project of the path of request l, when the caller owns it.
PathProject(l) ==
    {p \in db.projects :
        /\ p.project_id = l.req.project_id
        /\ p.owner_id = CallerId(l)
        /\ ~IsSet(p.deleted_at)}

\* The user-role row an update request addresses.
PathUserRole(l) ==
    {r \in db.user_roles :
        /\ r.id = l.req.user_role_id
        /\ r.project_id = l.req.project_id
        /\ ~IsSet(r.deleted_at)}

\* Request l is refused by rule (a) or rule (b).
RoleRefused(l) ==
    LET p == CHOOSE x \in PathProject(l) : TRUE
    IN IF l.op = "create_project_user_role"
       THEN \/ NotInRolesList(p, l.req.data.role)
            \/ TripleTaken(p.project_id, l.req.data.user_id, l.req.data.role, 0)
       ELSE \/ NotInRolesList(p, Val(l.req.patch.role))
            \/ \E r \in PathUserRole(l) :
                    TripleTaken(p.project_id, r.user_id, Val(l.req.patch.role), r.id)

\* The request succeeded and the requested role is stored.
RoleStored(l, user_roles) ==
    IF l.op = "create_project_user_role"
    THEN /\ l.resp.status = 201
         /\ l.resp.body \in user_roles
         /\ ~IsSet(l.resp.body.deleted_at)
         /\ <<l.resp.body.project_id, l.resp.body.user_id, l.resp.body.role>> =
                <<l.req.project_id, l.req.data.user_id, l.req.data.role>>
    ELSE /\ l.resp.status = 200
         /\ \E r \in user_roles :
                /\ r.id = l.req.user_role_id
                /\ r.role = Val(l.req.patch.role)
                /\ l.resp.body = r

\* A create or update of a user-role on a project of the caller: the body
\* of a create names the project of the path, an update supplies a role.
RoleRequest(l) ==
    /\ l.op \in {"create_project_user_role", "update_project_user_role"}
    /\ PathProject(l) # {}
    /\ l.op = "create_project_user_role" => l.req.data.project_id = l.req.project_id
    /\ l.op = "update_project_user_role" => IsSet(l.req.patch.role)

\* C10 (as stated): on a project of the caller, create and update of a
\* user-role end in BadRequest (400) with the user-role rows unchanged when
\* (a) or (b) holds, and otherwise succeed and store the requested role.
C10_RoleRules ==
    [][(Answered /\ RoleRequest(last')) =>
        IF RoleRefused(last')
        THEN last'.resp.status = 400 /\ db'.user_roles = db.user_roles
        ELSE RoleStored(last', db'.user_roles)]_vars

\* The resource of the request exists: the user a create names has a row,
\* the row an update addresses is a non-deleted row of the project.
RoleTargetExists(l) ==
    IF l.op = "create_project_user_role"
    THEN \E u \in db.users : u.id = l.req.data.user_id
    ELSE PathUserRole(l) # {}

\* C10 (amended): as stated when the user a create names has a row and the
\* row an update addresses exists.  Otherwise the request changes no row
\* and ends in NotFound (404), except that a create refused by rule (a)
\* still ends in BadRequest.
C10_RoleRulesTargetExists ==
    [][(Answered /\ RoleRequest(last')) =>
        /\ RoleTargetExists(last') =>
                IF RoleRefused(last')
                THEN last'.resp.status = 400 /\ db' = db
                ELSE RoleStored(last', db'.user_roles)
        /\ ~RoleTargetExists(last') =>
                /\ db' = db
                /\ last'.resp.status =
                    IF last'.op = "create_project_user_role" /\ RoleRefused(last')
                    THEN 400 ELSE 404]_vars

\* An update refused by rule (b).
C10_Witness ==
    /\ last.op = "update_project_user_role"
    /\ RoleRequest(last)
    /\ RoleTargetExists(last)
    /\ last.resp = BadRequest("This user already has this role for this project")

(***************************************************************************)
(* Claims about soft-deleted users (checked under SpecSoftDelete).         *)
(***************************************************************************)
DeletedClerkId(clerk_id) ==
    \E u \in db.users : u.clerk_id = clerk_id /\ IsSet(u.deleted_at)

\* C9: every read path treats a soft-deleted user as absent:
\* get_user_by_clerk_id answers NotFound for it, the caller lookup of the
\* ownership guard does not resolve it, create_project_user_role rejects it
\* as the target user, and the user-role listing does not return it.
C9_DeletedUserIsAbsent ==
    /\ (last.op = "get_user_by_clerk_id" /\ DeletedClerkId(last.req)) =>
            last.resp.status = 404
    /\ (/\ last.op \in {"get_project", "get_project_user_roles",
                        "create_project_user_role"}
        /\ DeletedClerkId(last.req.caller)) =>
            last.resp = UserNotSynced
    /\ (/\ last.op = "create_project_user_role"
        /\ \E u \in db.users : u.id = last.req.data.user_id /\ IsSet(u.deleted_at)) =>
            last.resp.status # 201
    /\ (last.op = "get_project_user_roles" /\ last.resp.status = 200) =>
            \A row \in last.resp.body : ~IsSet(row.user.deleted_at)

\* The lookup of a soft-deleted user is answered.
C9_Witness ==
    /\ last.op = "get_user_by_clerk_id"
    /\ DeletedClerkId(last.req)

(***************************************************************************)
(* Claims about user-roles and the roles list (checked under Spec).        *)
(***************************************************************************)
\* C12: in every reachable state, the role of every non-deleted user-role
\* row of a non-deleted project whose roles list is not empty is a member
\* of that roles list.
C12_RolesAreDefined ==
    \A r \in Live(db.user_roles), p \in Live(db.projects) :
        (p.project_id = r.project_id /\ RolesList(p) # <<>>) =>
            r.role \in Range(RolesList(p))

\* update_project has just replaced the roles list of a project that has a
\* user-role row.
C12_Witness ==
    /\ last.op = "update_project"
    /\ last.resp.status = 200
    /\ IsSet(last.req.patch.roles)
    /\ \E r \in Live(db.user_roles) : r.project_id = last.req.project_id

(***************************************************************************)
(* Cloning and templates of a project that is in use.  The owner clerk_a   *)
(* has created project 1, given it a roles list, assigned clerk_b a role,  *)
(* put a task for clerk_b in the lane To Do and deleted the lane Done;     *)
(* from there the owner's requests are served one at a time.               *)
(***************************************************************************)
MaxCloneCommits == 3

Owner == "clerk_a"

\* The ids of the stored rows of a table.
Stored(rows, k) == {r[k] : r \in rows}

ProjectInUse ==
    LET d1 == create_project(SeedDb, Owner, "P").db
        d2 == update_project(d1, Owner, 1,
                  [name |-> None, roles |-> Some(Some(<<"dev", "qa">>))]).db
        d3 == create_project_user_role(d2, Owner, 1,
                  [project_id |-> 1, user_id |-> 2, role |-> "dev"]).db
        d4 == create_task(d3, Owner,
                  [project_id |-> 1, project_swim_lane_id |-> 2, title |-> <<"t">>,
                   description |-> None, assigned_to |-> Some(2)]).db
    IN delete_swim_lane(d4, Owner, 3).db

LastCloneCommit == ProjectInUse.now + MaxCloneCommits - 1

\* Request (op, req) handled to completion, if the commit budget allows.
Serve(limit, op, req) ==
    LET r == Handle(db, [op |-> op, req |-> req])
    IN /\ last = NoRequest
       /\ r.db # db => db.now <= limit
       /\ db' = r.db
       /\ last' = [op |-> op, req |-> req, resp |-> r.resp]
       /\ UNCHANGED sess

CloneData(name, o) ==
    [name |-> name, include_statuses |-> o.include_statuses,
     include_roles |-> o.include_roles, include_users |-> o.include_users,
     include_tasks |-> o.include_tasks, keep_assignees |-> o.keep_assignees]

\* The flag vectors of the owner's clones and snapshots: those of
\* CloneOptions, and every one that keeps assignees without including users.
OwnerCloneOptions ==
    CloneOptions \cup {Flags(st, ro, FALSE, ta, TRUE) : st, ro, ta \in BOOLEAN}

OwnerCreateProjectFromTemplate ==
    \E project_id \in Stored(db.projects, "project_id"), o \in OwnerCloneOptions :
        Serve(LastCloneCommit, "create_project_from_template",
              [caller |-> Owner,
               data |-> [source_project_id |-> project_id] @@ CloneData("P", o)])

OwnerCreateTemplateFromProject ==
    \E project_id \in Stored(db.projects, "project_id"), o \in OwnerCloneOptions :
        Serve(LastCloneCommit, "create_template_from_project",
              [caller |-> Owner,
               data |-> [source_project_id |-> project_id, description |-> Some("d")]
                            @@ CloneData("T", o)])

OwnerCreateProjectFromSavedTemplate ==
    \E template_id \in Stored(db.templates, "template_id"), keep_assignees \in BOOLEAN :
        Serve(LastCloneCommit, "create_project_from_saved_template",
              [caller |-> Owner,
               data |-> [name |-> "P", template_id |-> template_id,
                         keep_assignees |-> keep_assignees]])

OwnerDeleteTemplate ==
    \E template_id \in Stored(db.templates, "template_id") :
        Serve(LastCloneCommit, "delete_template",
              [caller |-> Owner, template_id |-> template_id])

OwnerCreateProjectUserRole ==
    \E project_id \in Stored(db.projects, "project_id"), user_id \in Stored(db.users, "id"), role \in RoleNames :
        Serve(LastCloneCommit, "create_project_user_role",
              [caller |-> Owner, project_id |-> project_id,
               data |-> [project_id |-> project_id, user_id |-> user_id, role |-> role]])

OwnerUpdateProjectUserRole ==
    \E r \in db.user_roles, role \in RoleNames :
        Serve(LastCloneCommit, "update_project_user_role",
              [caller |-> Owner, project_id |-> r.project_id,
               user_role_id |-> r.id, patch |-> [role |-> Some(role)]])

OwnerDeleteProjectUserRole ==
    \E r \in db.user_roles :
        Serve(LastCloneCommit, "delete_project_user_role",
              [caller |-> Owner, project_id |-> r.project_id,
               user_role_id |-> r.id])

OwnerUpdateProject ==
    \E project_id \in Stored(db.projects, "project_id"), patch \in ProjectPatches :
        Serve(LastCloneCommit, "update_project",
              [caller |-> Owner, project_id |-> project_id, patch |-> patch])

OwnerDeleteProject ==
    \E project_id \in Stored(db.projects, "project_id") :
        Serve(LastCloneCommit, "delete_project",
              [caller |-> Owner, project_id |-> project_id])

OwnerUpdateSwimLane ==
    \E swim_lane_id \in Stored(db.swim_lanes, "swim_lane_id"), order \in {0, 2} :
        Serve(LastCloneCommit, "update_swim_lane",
              [caller |-> Owner, swim_lane_id |-> swim_lane_id,
               patch |-> [name |-> None, order |-> Some(order)]])

OwnerDeleteSwimLane ==
    \E swim_lane_id \in Stored(db.swim_lanes, "swim_lane_id") :
        Serve(LastCloneCommit, "delete_swim_lane",
              [caller |-> Owner, swim_lane_id |-> swim_lane_id])

OwnerUpdateTask ==
    \E task_id \in Stored(db.tasks, "task_id"),
       patch \in {[NoTaskPatch EXCEPT !.project_swim_lane_id = Some(l)] :
                        l \in Stored(db.swim_lanes, "swim_lane_id")}
                  \cup {[NoTaskPatch EXCEPT !.assigned_to = Some(u)] : u \in {EmptyAssignee, 1}} :
        Serve(LastCloneCommit, "update_task",
              [caller |-> Owner, task_id |-> task_id, patch |-> patch])

InitClone ==
    /\ db = ProjectInUse
    /\ last = NoRequest
    /\ sess = [s \in Sessions |-> Idle]

\* Clones, snapshots and expansions while the source project is edited.
NextClone ==
    \/ OwnerCreateProjectFromTemplate
    \/ OwnerCreateTemplateFromProject
    \/ OwnerCreateProjectFromSavedTemplate
    \/ OwnerDeleteTemplate
    \/ OwnerDeleteProjectUserRole
    \/ OwnerUpdateProject
    \/ OwnerDeleteProject
    \/ OwnerUpdateSwimLane
    \/ OwnerDeleteSwimLane
    \/ OwnerUpdateTask
    \/ Deliver

SpecClone == InitClone /\ [][NextClone]_vars

\* Clones, snapshots and expansions while user-roles are edited.
NextRoles ==
    \/ OwnerCreateProjectFromTemplate
    \/ OwnerCreateTemplateFromProject
    \/ OwnerCreateProjectFromSavedTemplate
    \/ OwnerCreateProjectUserRole
    \/ OwnerUpdateProjectUserRole
    \/ OwnerDeleteProjectUserRole
    \/ Deliver

SpecRoles == InitClone /\ [][NextRoles]_vars

(***************************************************************************)
(* Claims about user-roles under cloning (checked under SpecRoles).        *)
(***************************************************************************)
SameTriple(r1, r2) ==
    r1.project_id = r2.project_id /\ r1.user_id = r2.user_id /\ r1.role = r2.role

\* C11: in every state reached by requests served one after another
\* (user-role create, update and delete, clone of a project, snapshot to a
\* template and expansion of a template), no two non-deleted user-role rows
\* have the same (project, user, role).
C11_TriplesUnique ==
    \A r1, r2 \in Live(db.user_roles) : SameTriple(r1, r2) => r1 = r2

\* A template has been expanded into a project that took over two
\* user-roles.
C11_Witness ==
    /\ last.op = "create_project_from_saved_template"
    /\ last.resp.status = 201
    /\ Cardinality({r \in Live(db.user_roles) :
                        r.project_id = last.resp.body.project_id}) >= 2

(***************************************************************************)
(* Claims about clones and templates (checked under SpecClone).            *)
(***************************************************************************)
LanesIn(d, project_id) == {l \in d.swim_lanes : l.project_id = project_id}
TasksIn(d, project_id) == {t \in d.tasks : t.project_id = project_id}

\* Task t of storage d is in a lane of its project that has the lowest
\* order of the project's lanes.
InLowestLane(d, t) ==
    \E l \in LanesIn(d, t.project_id) :
        /\ l.swim_lane_id = t.project_swim_lane_id
        /\ \A other \in LanesIn(d, t.project_id) : l.order <= other.order

\* Request l was answered with a new project that is to take over tasks.
CopiesTasks(l) ==
    /\ l.resp.status = 201
    /\ \/ l.op = "create_project_from_saved_template"
       \/ /\ l.op = "create_project_from_template"
          /\ l.req.data.include_tasks
          /\ l.req.data.include_statuses

\* The number of tasks request l is to copy: the non-deleted tasks of the
\* source project, or the task entries of the template.
SourceTasks(l) ==
    IF l.op = "create_project_from_template"
    THEN Cardinality(Live(TasksIn(db, l.req.data.source_project_id)))
    ELSE LET t == CHOOSE t \in db.templates : t.template_id = l.req.data.template_id
         IN IF IsSet(t.tasks) THEN Len(Val(t.tasks)) ELSE 0

\* C13: every task of a project created by create_project_from_template
\* (with include_tasks and include_statuses) or by
\* create_project_from_saved_template is in a lane of the new project with
\* the lowest order, and the new project has exactly one task per
\* non-deleted task of the source.
C13_TasksInFirstLane ==
    [][(Answered /\ CopiesTasks(last')) =>
            LET new == TasksIn(db', last'.resp.body.project_id)
            IN /\ \A t \in new : InLowestLane(db', t)
               /\ Cardinality(new) = SourceTasks(last')]_vars

\* A clone with include_tasks and include_statuses of a project that has a
\* task and no non-deleted lane.
C13_Witness ==
    /\ last.op = "create_project_from_template"
    /\ last.resp.status = 201
    /\ last.req.data.include_tasks
    /\ last.req.data.include_statuses
    /\ Live(TasksIn(db, last.req.data.source_project_id)) # {}
    /\ Live(LanesIn(db, last.req.data.source_project_id)) = {}

\* The template request l names.
TemplateOf(l) == CHOOSE t \in db.templates : t.template_id = l.req.data.template_id

Unassigned(tasks) == \A t \in tasks : t.assigned_to = None

\* C14: a clone with keep_assignees and without include_users, whatever
\* the other flags, makes a project none of whose tasks has an assignee;
\* a snapshot with those flags makes a template without a users list and
\* without an assignee on any task entry, and every expansion of a template
\* without a users list, with keep_assignees or not, makes a project none
\* of whose tasks has an assignee.
C14_NoUsersNoAssignees ==
    [][(Answered /\ last'.resp.status = 201) =>
            /\ (/\ last'.op = "create_project_from_template"
                /\ last'.req.data.keep_assignees
                /\ ~last'.req.data.include_users) =>
                    Unassigned(TasksIn(db', last'.resp.body.project_id))
            /\ (/\ last'.op = "create_template_from_project"
                /\ last'.req.data.keep_assignees
                /\ ~last'.req.data.include_users) =>
                    /\ last'.resp.body.users = None
                    /\ IsSet(last'.resp.body.tasks) =>
                            Unassigned(Range(Val(last'.resp.body.tasks)))
            /\ (/\ last'.op = "create_project_from_saved_template"
                /\ TemplateOf(last').users = None) =>
                    Unassigned(TasksIn(db', last'.resp.body.project_id))]_vars

\* A template without a users list and with a task entry has been expanded
\* with keep_assignees, while a task of the source has an assignee.
C14_Witness ==
    /\ last.op = "create_project_from_saved_template"
    /\ last.resp.status = 201
    /\ last.req.data.keep_assignees
    /\ TemplateOf(last).users = None
    /\ Truthy(TemplateOf(last).tasks)
    /\ TasksIn(db, last.resp.body.project_id) # {}
    /\ \E t \in Live(db.tasks) : IsSet(t.assigned_to)

(***************************************************************************)
(* Worker processes on one database.  Inside a process a handler runs to   *)
(* its end (the handlers are coroutines that never await), but several     *)
(* worker processes share the database, and a handler's commits are the    *)
(* points where the others see its writes.  create_project,                *)
(* create_project_from_template and create_project_from_saved_template     *)
(* commit the project row, then write and commit the rest;                 *)
(* create_project_user_role checks, then inserts and commits.  A worker in *)
(* sess is idle, or at "fill" (project committed) or "insert" (checks      *)
(* passed).  The storage may fail the second write of a creation.          *)
(***************************************************************************)
MaxWorkerCommits == 3

\* The project in use, and a template of it with everything included.
ProjectWithTemplate ==
    create_template_from_project(ProjectInUse, Owner,
        [source_project_id |-> 1, description |-> Some("d")] @@
            CloneData("T", Flags(TRUE, TRUE, TRUE, TRUE, TRUE))).db

LastWorkerCommit == ProjectWithTemplate.now + MaxWorkerCommits - 1

Answer(op, req, resp) == [op |-> op, req |-> req, resp |-> resp]

\* The handler of request (op, req) up to its first commit: a refusal is
\* answered; otherwise the project row, which is the handler's response
\* body, is committed and the worker goes on to fill the project.
BeginProject(s, op, req) ==
    LET r == Handle(db, [op |-> op, req |-> req])
    IN /\ sess[s].pc = "idle"
       /\ db.now <= LastWorkerCommit
       /\ IF r.resp.status # 201
          THEN /\ last' = Answer(op, req, r.resp)
               /\ UNCHANGED <<db, sess>>
          ELSE /\ db' = Commit(db, [db EXCEPT !.projects = @ \cup {r.resp.body}])
               /\ sess' = [sess EXCEPT ![s] = [pc |-> "fill", op |-> op, req |-> req,
                                               project |-> r.resp.body]]
               /\ UNCHANGED last

\* The rest of the handler: the rows are written and committed.
FillProject(s, op, rows) ==
    /\ sess[s].pc = "fill"
    /\ sess[s].op = op
    /\ db' = Commit(db, AddRows(db, rows))
    /\ last' = Answer(op, sess[s].req, Ok(201, sess[s].project))
    /\ sess' = [sess EXCEPT ![s] = Idle]

CreateProjectCommit(s) ==
    BeginProject(s, "create_project", [caller |-> Owner, name |-> "P"])

CreateProjectLanes(s) ==
    FillProject(s, "create_project",
                [swim_lanes |-> DefaultSwimLanes(db, sess[s].project.project_id),
                 user_roles |-> {}, tasks |-> {}])

CloneCommit(s) ==
    \E project_id \in Stored(db.projects, "project_id"),
       o \in {Flags(TRUE, TRUE, TRUE, TRUE, TRUE), Flags(FALSE, FALSE, FALSE, FALSE, FALSE)} :
        BeginProject(s, "create_project_from_template",
                     [caller |-> Owner,
                      data |-> [source_project_id |-> project_id] @@ CloneData("P", o)])

CloneFill(s) ==
    FillProject(s, "create_project_from_template",
                CloneRows(db, sess[s].req.data.source_project_id,
                          sess[s].project.project_id, sess[s].req.data,
                          sess[s].project.owner_id))

ExpandCommit(s) ==
    \E template_id \in Stored(db.templates, "template_id") :
        BeginProject(s, "create_project_from_saved_template",
                     [caller |-> Owner,
                      data |-> [name |-> "P", template_id |-> template_id,
                                keep_assignees |-> TRUE]])

ExpandFill(s) ==
    FillProject(s, "create_project_from_saved_template",
                ExpandRows(db, TemplateOf(sess[s]), sess[s].project.project_id,
                           sess[s].req.data, sess[s].project.owner_id))

\* create_project_user_role up to the commit: every check has passed.
UserRoleCheck(s) ==
    \E user_id \in {1, 2}, role \in RoleNames :
        LET req == [caller |-> Owner, project_id |-> 1,
                    data |-> [project_id |-> 1, user_id |-> user_id, role |-> role]]
            r == create_project_user_role(db, Owner, 1, req.data)
        IN /\ sess[s].pc = "idle"
           /\ db.now <= LastWorkerCommit
           /\ IF r.resp.status # 201
              THEN /\ last' = Answer("create_project_user_role", req, r.resp)
                   /\ UNCHANGED <<db, sess>>
              ELSE /\ sess' = [sess EXCEPT ![s] =
                            [pc |-> "insert", op |-> "create_project_user_role",
                             req |-> req, project |-> None]]
                   /\ UNCHANGED <<db, last>>

UserRoleInsert(s) ==
    /\ sess[s].pc = "insert"
    /\ LET r == user_role_insert(db, sess[s].req.data)
       IN /\ db' = r.db
          /\ last' = Answer(sess[s].op, sess[s].req, r.resp)
    /\ sess' = [sess EXCEPT ![s] = Idle]

\* The write after the first commit of a creation fails (the connection is
\* lost, the commit is refused): the session is closed, what was not
\* committed is rolled back, the request ends in 500.
StorageFailure(s) ==
    /\ sess[s].pc = "fill"
    /\ last' = Answer(sess[s].op, sess[s].req, ServerError)
    /\ sess' = [sess EXCEPT ![s] = Idle]
    /\ UNCHANGED db

\* A request of another worker that reads a project.
ReadProject ==
    \E project_id \in Stored(db.projects, "project_id") :
        /\ last' = Answer("get_project", [caller |-> Owner, project_id |-> project_id],
                          get_project(db, Owner, project_id).resp)
        /\ UNCHANGED <<db, sess>>

InitWorkers ==
    /\ db = ProjectWithTemplate
    /\ last = NoRequest
    /\ sess = [s \in Sessions |-> Idle]

NextWorkers ==
    \/ \E s \in Sessions : CreateProjectCommit(s)
    \/ \E s \in Sessions : CreateProjectLanes(s)
    \/ \E s \in Sessions : CloneCommit(s)
    \/ \E s \in Sessions : CloneFill(s)
    \/ \E s \in Sessions : ExpandCommit(s)
    \/ \E s \in Sessions : ExpandFill(s)
    \/ \E s \in Sessions : UserRoleCheck(s)
    \/ \E s \in Sessions : UserRoleInsert(s)
    \/ \E s \in Sessions : StorageFailure(s)
    \/ ReadProject

SpecWorkers == InitWorkers /\ [][NextWorkers]_vars

(***************************************************************************)
(* Claims about transactions (checked under SpecWorkers).                  *)
(***************************************************************************)
\* Worker s ends its request in this step.
Ends(s) == sess[s].pc # "idle" /\ sess'[s].pc = "idle"

\* The rows of storage d that belong to project project_id.
RowsOfProject(d, project_id) ==
    {p \in d.projects : p.project_id = project_id}
    \cup LanesIn(d, project_id) \cup TasksIn(d, project_id)
    \cup {r \in d.user_roles : r.project_id = project_id}

\* C15: when create_project, create_project_from_template or
\* create_project_from_saved_template fails at a step after it started, no
\* project, swim lane, user-role or task of that request is stored.
C15_AllOrNothing ==
    [][\A s \in Sessions :
        (Ends(s) /\ sess[s].pc = "fill" /\ last'.resp.status # 201) =>
            RowsOfProject(db', sess[s].project.project_id) = {}]_vars

\* A creation has failed after its first commit.
C15_Witness ==
    /\ last.op \in {"create_project", "create_project_from_template",
                    "create_project_from_saved_template"}
    /\ last.resp = ServerError

\* C16: a request that runs while a project is being created by
\* create_project, create_project_from_template or
\* create_project_from_saved_template does not see the project before its
\* lanes, user-roles and tasks are stored: no read is answered with a
\* project whose creating request has not finished.
C16_NoIntermediateProject ==
    [][(last' # last /\ last'.op = "get_project" /\ last'.resp.status = 200) =>
            \A s \in Sessions :
                sess[s].pc = "fill" =>
                    sess[s].project.project_id # last'.req.project_id]_vars

\* A read has been answered with a project that has no lane yet, while the
\* request creating it is under way.
C16_Witness ==
    /\ last.op = "get_project"
    /\ last.resp.status = 200
    /\ LanesIn(db, last.req.project_id) = {}
    /\ \E s \in Sessions :
        sess[s].pc = "fill" /\ sess[s].project.project_id = last.req.project_id

\* C17: the duplicate check of create_project_user_role is a read before
\* the write and the table has no uniqueness constraint: a request that
\* has passed its checks inserts its row and is answered 201 whatever has
\* been committed since, also a row with the same (project, user, role).
C17_InsertAfterCheck ==
    [][\A s \in Sessions :
        (Ends(s) /\ sess[s].pc = "insert") =>
            /\ last'.resp.status = 201
            /\ last'.resp.body \in Live(db'.user_roles) \ db.user_roles
            /\ SameTriple(last'.resp.body, sess[s].req.data)]_vars

\* Two requests for the same triple have both passed the check and both
\* committed: two non-deleted rows with the same (project, user, role).
C17_Witness ==
    /\ last.op = "create_project_user_role"
    /\ last.resp.status = 201
    /\ \E r \in Live(db.user_roles) : r # last.resp.body /\ SameTriple(r, last.resp.body)

\* C18: a template is a snapshot: whatever is done after
\* create_template_from_project has returned (the source project, its
\* lanes, tasks or user-roles changed or soft-deleted, its roles list
\* changed, the template expanded or deleted), the template's row stays,
\* with its name, description, owner, statuses, roles, users and tasks; only
\* its deletion timestamp can change.
C18_TemplateImmutable ==
    [][\A t \in db.templates :
        \E u \in db'.templates :
            /\ u.template_id = t.template_id
            /\ [u EXCEPT !.deleted_at = t.deleted_at] = t]_vars

\* A lane of the source has been deleted after the snapshot: the template
\* of project 1 lists more statuses than project 1 has lanes left.
C18_Witness ==
    /\ last.op = "delete_swim_lane"
    /\ last.resp.status = 204
    /\ \E t \in db.templates :
        /\ Truthy(t.statuses) /\ Truthy(t.users) /\ Truthy(t.tasks)
        /\ Len(Val(t.statuses)) = Len(LanesByOrder(ProjectInUse, 1))
        /\ Len(Val(t.statuses)) > Len(LanesByOrder(db, 1))

(***************************************************************************)
(* C19: clearing the assignee of a task.                                   *)
(***************************************************************************)
\* The stored task the request of l addresses, in d.
TaskOf(d, l) == {t \in d.tasks : t.task_id = l.req.task_id}

\* A successful update_task on a task that has an assignee.
UpdatesAssigned ==
    /\ Answered
    /\ last'.op = "update_task"
    /\ last'.resp.status = 200
    /\ \E t \in TaskOf(db, last') : IsSet(t.assigned_to)

\* C19: after a successful update_task on a task that has an assignee, a
\* body with a null assignee leaves the stored task without assignee, and a
\* body without the assignee field leaves the assignee as it was.
C19_NullClearsAssignee ==
    [][UpdatesAssigned =>
        \A t \in TaskOf(db, last'), q \in TaskOf(db', last') :
            /\ last'.req.body.assigned_to = Null => q.assigned_to = None
            /\ last'.req.body.assigned_to = Absent => q.assigned_to = t.assigned_to]_vars

\* What the handler does: a null assignee is read as no assignee field and
\* leaves the assignee; only a present, falsy assignee clears it.
C19_NullLeavesAssignee ==
    [][UpdatesAssigned =>
        \A t \in TaskOf(db, last'), q \in TaskOf(db', last') :
            /\ last'.req.body.assigned_to \in {Null, Absent} =>
                    q.assigned_to = t.assigned_to
            /\ last'.req.body.assigned_to = [given |-> TRUE, value |-> Some(EmptyAssignee)] =>
                    q.assigned_to = None]_vars

\* A body with a null assignee was answered 200 and the task still has its
\* assignee.
C19_Witness ==
    /\ last.op = "update_task"
    /\ last.resp.status = 200
    /\ last.req.body.assigned_to = Null
    /\ \E q \in TaskOf(db, last) : IsSet(q.assigned_to)

(***************************************************************************)
(* C20: updates are partial merges.                                        *)
(***************************************************************************)
MergingUpdates == {"update_project", "update_swim_lane", "update_task"}

\* The table, the key field and the key of the row an update addresses.
TargetTable(l) ==
    CASE l.op = "update_project" -> "projects"
      [] l.op = "update_swim_lane" -> "swim_lanes"
      [] l.op = "update_task" -> "tasks"
TargetKey(l) ==
    CASE l.op = "update_project" -> "project_id"
      [] l.op = "update_swim_lane" -> "swim_lane_id"
      [] l.op = "update_task" -> "task_id"
TargetId(l) == l.req[TargetKey(l)]

\* The fields the request carries.
Supplied(l) ==
    IF l.op = "update_task"
    THEN {k \in DOMAIN l.req.body : l.req.body[k].given}
    ELSE {k \in DOMAIN l.req.patch : IsSet(l.req.patch[k])}

\* A successful update.
Merged == Answered /\ last'.op \in MergingUpdates /\ last'.resp.status = 200

LaneRowsOf(d, t) == {l \in d.swim_lanes : l.swim_lane_id = t.project_swim_lane_id}

\* C21: in every reachable state every task references a lane, and the
\* lane it references is a lane of the task's own project.
C21_TaskLaneSameProject ==
    \A t \in db.tasks :
        /\ LaneRowsOf(db, t) # {}
        /\ \A l \in LaneRowsOf(db, t) : l.project_id = t.project_id

\* A clone has just copied a task into its new project, next to the task
\* of the source.
C21_Witness ==
    /\ last.op \in {"create_project_from_template", "create_project_from_saved_template"}
    /\ last.resp.status = 201
    /\ \E t \in db.tasks : t.project_id = last.resp.body.project_id
    /\ \E t \in db.tasks : t.project_id # last.resp.body.project_id

(***************************************************************************)
(* Clones and expansions over stale references: users soft-deleted after   *)
(* they were given a role, and template JSON that does not parse.          *)
(***************************************************************************)
\* project_templates.users and .tasks are free-form JSONB columns; the
\* expansion guards uuid.UUID(..) with try/except for text that is no
\* UUID.  No endpoint writes such text; the operations side edits the JSON
\* of a stored template directly.
EditTemplateJson(limit) ==
    /\ db.now <= limit
    /\ \E t \in Live(db.templates), part \in {"users", "tasks"} :
        LET junk == <<"junk">>
            u == [t EXCEPT
                    !.users = IF part = "users" /\ IsSet(@)
                              THEN Some([i \in DOMAIN Val(@) |->
                                            [Val(@)[i] EXCEPT !.user_id = junk]])
                              ELSE @,
                    !.tasks = IF part = "tasks" /\ IsSet(@)
                              THEN Some([i \in DOMAIN Val(@) |->
                                            [Val(@)[i] EXCEPT !.assigned_to =
                                                IF IsSet(@) THEN Some(junk) ELSE @]])
                              ELSE @]
        IN /\ u # t
           /\ db' = [db EXCEPT !.templates = (@ \ {t}) \cup {u}, !.now = @ + 1]
    /\ last' = [op |-> "edit_template_json", req |-> None, resp |-> Ok(0, None)]
    /\ UNCHANGED sess

NextStale ==
    \/ SoftDeleteUser(LastCloneCommit)
    \/ EditTemplateJson(LastCloneCommit)
    \/ OwnerCreateProjectFromTemplate
    \/ OwnerCreateTemplateFromProject
    \/ OwnerCreateProjectFromSavedTemplate
    \/ Deliver

SpecStale == InitClone /\ [][NextStale]_vars

(***************************************************************************)
(* C22: user-roles of a new project name non-deleted users.                *)
(***************************************************************************)
ClonePaths == {"create_project_from_template", "create_project_from_saved_template"}

\* A clone or an expansion has just answered 201.
Cloned == Answered /\ last'.op \in ClonePaths /\ last'.resp.status = 201

\* The user-role rows the request answered by l added to its new project.
RolesAdded(d, l) == {r \in d.user_roles : r.project_id = l.resp.body.project_id}

\* C22: a clone or expansion with users included creates user-roles only
\* for users that are not deleted when it runs, in both paths, and it
\* answers 201 whatever the source's user references are.
C22_OnlyLiveUsersGetRoles ==
    [][/\ Cloned => \A r \in RolesAdded(db', last') : LiveUserById(db, r.user_id) # {}
       /\ (Answered /\ last'.op \in ClonePaths) => last'.resp.status \in {201, 404}]_vars

\* What holds: the expansion of a saved template skips deleted users and
\* text that does not parse; the clone of a live project copies every
\* non-deleted user-role row of its source.
C22_ExpansionSkipsStale ==
    [][Cloned =>
        IF last'.op = "create_project_from_saved_template"
        THEN \A r \in RolesAdded(db', last') : LiveUserById(db, r.user_id) # {}
        ELSE last'.req.data.include_users =>
                {[user_id |-> r.user_id, role |-> r.role] : r \in RolesAdded(db', last')}
                = {[user_id |-> r.user_id, role |-> r.role] :
                     r \in {x \in Live(db.user_roles) :
                              x.project_id = last'.req.data.source_project_id}}]_vars

\* A clone of a live project has given a role to a user that is deleted.
C22_Witness ==
    /\ last.op = "create_project_from_template"
    /\ last.resp.status = 201
    /\ \E r \in RolesAdded(db, last) : LiveUserById(db, r.user_id) = {}

(***************************************************************************)
(* C23: assignees of the tasks of an expanded template.                    *)
(***************************************************************************)
\* The task entries of the template request l names.
TaskEntries(l) == IF Truthy(TemplateOf(l).tasks) THEN Val(TemplateOf(l).tasks) ELSE <<>>

\* C23: an expansion of a saved template answers 201 and makes one task
\* per task entry; a task has an assignee only if keep_assignees was
\* requested, the assigned_to text of its entry parses to that id, and a
\* user-role for that user was created in the new project by the same
\* expansion; an entry whose assigned_to does not parse gives a task
\* without assignee.
C23_AssigneeOnlyIfAdded ==
    [][(Answered /\ last'.op = "create_project_from_saved_template") =>
        LET entries == TaskEntries(last')
            new == TasksIn(db', last'.resp.body.project_id)
        IN /\ last'.resp.status = 201
           /\ Cardinality(new) = Len(entries)
           /\ \A q \in new : IsSet(q.assigned_to) =>
                /\ last'.req.data.keep_assignees
                /\ \E i \in DOMAIN entries :
                    /\ entries[i].title = q.title
                    /\ IsSet(entries[i].assigned_to)
                    /\ ParseUuid(Val(entries[i].assigned_to)) = q.assigned_to
                /\ \E r \in RolesAdded(db', last') : r.user_id = Val(q.assigned_to)
           /\ \A i \in DOMAIN entries :
                (/\ IsSet(entries[i].assigned_to)
                 /\ ~IsSet(ParseUuid(Val(entries[i].assigned_to)))) =>
                    \E q \in new : q.title = entries[i].title /\ q.assigned_to = None]_vars

\* A template whose task entry has an assigned_to that does not parse, and
\* whose users list names a user that got its role, was expanded with
\* keep_assignees: the task has no assignee.
C23_Witness ==
    /\ last.op = "create_project_from_saved_template"
    /\ last.resp.status = 201
    /\ last.req.data.keep_assignees
    /\ \E i \in DOMAIN TaskEntries(last) :
        /\ IsSet(TaskEntries(last)[i].assigned_to)
        /\ ~IsSet(ParseUuid(Val(TaskEntries(last)[i].assigned_to)))
    /\ RolesAdded(db, last) # {}
    /\ TasksIn(db, last.resp.body.project_id) # {}
    /\ Unassigned(TasksIn(db, last.resp.body.project_id))

(***************************************************************************)
(* C24: what a snapshot stores.                                            *)
(***************************************************************************)
\* A snapshot has just answered 201.
Snapshot == Answered /\ last'.op = "create_template_from_project" /\ last'.resp.status = 201

\* The list is ascending in field order.
Ascending(list) == \A i, j \in DOMAIN list : i < j => list[i].order <= list[j].order

\* The entry a snapshot with request data `data` stores for task t, where
\* status_order is the order of the lane t references.
EntryOf(d, t, data) ==
    [title |-> t.title, description |-> t.description,
     status_order |-> (CHOOSE l \in d.swim_lanes :
                            l.swim_lane_id = t.project_swim_lane_id).order,
     assigned_to |-> IF data.keep_assignees /\ data.include_users /\ IsSet(t.assigned_to)
                     THEN Some(UuidStr(Val(t.assigned_to))) ELSE None]

\* Template tpl holds what the claim says a snapshot of project src of
\* storage d with request data `data` stores, for the source tasks `tasks`.
StoresAsStated(d, tpl, src, data, tasks) ==
    LET lanes == Live(LanesIn(d, src.project_id))
        pairs == {r \in Live(d.user_roles) : r.project_id = src.project_id}
    IN /\ IF data.include_statuses
          THEN /\ IsSet(tpl.statuses)
               /\ Len(Val(tpl.statuses)) = Cardinality(lanes)
               /\ Range(Val(tpl.statuses)) = {[name |-> l.name, order |-> l.order] : l \in lanes}
               /\ Ascending(Val(tpl.statuses))
          ELSE tpl.statuses = None
       /\ IF data.include_statuses /\ data.include_tasks
          THEN /\ IsSet(tpl.tasks)
               /\ Len(Val(tpl.tasks)) = Cardinality(Live(TasksIn(d, src.project_id)))
               /\ \A t \in tasks : EntryOf(d, t, data) \in Range(Val(tpl.tasks))
          ELSE tpl.tasks = None
       /\ tpl.roles = IF data.include_roles /\ RolesList(src) # <<>> THEN src.roles ELSE None
       /\ IF data.include_users
          THEN /\ IsSet(tpl.users)
               /\ Len(Val(tpl.users)) = Cardinality(pairs)
               /\ Range(Val(tpl.users)) =
                    {[user_id |-> UuidStr(r.user_id), role |-> r.role] : r \in pairs}
          ELSE tpl.users = None

\* The source project of the snapshot or clone request l.
SourceOf(d, l) == CHOOSE p \in d.projects : p.project_id = l.req.data.source_project_id

\* C24: a snapshot stores the non-deleted lanes as (name, order) in
\* ascending order iff include_statuses; one task entry per non-deleted
\* source task iff include_statuses and include_tasks, with status_order
\* the order of the task's lane and assigned_to set iff keep_assignees,
\* include_users and the task has an assignee; the roles list iff
\* include_roles and the list is not empty; the (user_id, role) pairs of the
\* non-deleted user-roles iff include_users.
C24_SnapshotContents ==
    [][Snapshot =>
        StoresAsStated(db, last'.resp.body, SourceOf(db, last'), last'.req.data,
                       Live(TasksIn(db, last'.req.data.source_project_id)))]_vars

\* What holds: the same, with status_order the order of the task's lane
\* for the tasks whose lane is not deleted, and 0 for the others.
C24_SnapshotContentsLiveLanes ==
    [][Snapshot =>
        LET gone == {t \in Live(TasksIn(db, last'.req.data.source_project_id)) :
                        LiveLane(db, t.project_swim_lane_id) = {}}
        IN /\ StoresAsStated(db, last'.resp.body, SourceOf(db, last'), last'.req.data,
                       Live(TasksIn(db, last'.req.data.source_project_id)) \ gone)
           /\ (last'.req.data.include_statuses /\ last'.req.data.include_tasks) =>
                \A t \in gone :
                    [EntryOf(db, t, last'.req.data) EXCEPT !.status_order = 0]
                        \in Range(Val(last'.resp.body.tasks))]_vars

\* A snapshot with statuses and tasks of a source whose task is in a
\* deleted lane of order above 0: its entry has status_order 0.
C24_Witness ==
    /\ last.op = "create_template_from_project"
    /\ last.resp.status = 201
    /\ Truthy(last.resp.body.tasks)
    /\ \E t \in Live(TasksIn(db, last.req.data.source_project_id)) :
        \E l \in db.swim_lanes :
            /\ l.swim_lane_id = t.project_swim_lane_id
            /\ IsSet(l.deleted_at)
            /\ l.order > 0
            /\ \A i \in DOMAIN Val(last.resp.body.tasks) :
                    Val(last.resp.body.tasks)[i].status_order = 0

(***************************************************************************)
(* C25: a refused update of a task.                                        *)
(***************************************************************************)
\* The request of l carries a lane or an assignee that passes its check
\* and differs from what task t has.
CarriesValidChange(d, l, t) ==
    \/ /\ IsSet(l.req.patch.project_swim_lane_id)
       /\ LaneOfProject(d, Val(l.req.patch.project_swim_lane_id), t.project_id) # {}
       /\ Val(l.req.patch.project_swim_lane_id) # t.project_swim_lane_id
    \/ /\ IsSet(l.req.patch.assigned_to)
       /\ LiveUserById(d, Val(l.req.patch.assigned_to)) # {}
       /\ l.req.patch.assigned_to # t.assigned_to

\* C25: an update_task answered BadRequest leaves the storage, and with it
\* the task's lane, assignee, title and description every later request
\* reads, as they were before the request.
C25_RefusedUpdateKeepsTask ==
    [][(Answered /\ last'.op = "update_task" /\ last'.resp.status = 400) => db' = db]_vars

\* An update that carried a valid new lane or assignee was refused for a
\* field checked later, the unknown assignee or the blank title.
C25_Witness ==
    /\ last.op = "update_task"
    /\ last.resp.status = 400
    /\ last.resp.detail \in {<<"Assigned user not found.">>, <<"Title cannot be empty.">>}
    /\ \E t \in TaskOf(db, last) : CarriesValidChange(db, last, t)

(***************************************************************************)
(* C26: soft deletion is monotone.                                         *)
(***************************************************************************)
\* The tables whose rows the handlers soft-delete, with their key fields.
SoftDeleted ==
    {[table |-> "projects", key |-> "project_id"],
     [table |-> "swim_lanes", key |-> "swim_lane_id"],
     [table |-> "user_roles", key |-> "id"],
     [table |-> "templates", key |-> "template_id"]}

\* The table and the key of the row delete request l addresses.
DeleteTarget(l) ==
    CASE l.op = "delete_project" -> [table |-> "projects", key |-> "project_id", id |-> l.req.project_id]
      [] l.op = "delete_swim_lane" ->
            [table |-> "swim_lanes", key |-> "swim_lane_id", id |-> l.req.swim_lane_id]
      [] l.op = "delete_project_user_role" ->
            [table |-> "user_roles", key |-> "id", id |-> l.req.user_role_id]
      [] l.op = "delete_template" ->
            [table |-> "templates", key |-> "template_id", id |-> l.req.template_id]

\* Delete request l addresses a row whose deletion timestamp is set.
DeletesDeleted(d, l) ==
    /\ l.op \in {"delete_project", "delete_swim_lane", "delete_project_user_role",
                 "delete_template"}
    /\ \E r \in d[DeleteTarget(l).table] :
        r[DeleteTarget(l).key] = DeleteTarget(l).id /\ IsSet(r.deleted_at)

\* C26: in every step, every project, lane, user-role and template whose
\* deletion timestamp is set keeps that timestamp, and a delete request on
\* such a row ends in NotFound.
C26_DeletionMonotone ==
    [][/\ \A s \in SoftDeleted : \A r \in db[s.table] :
            IsSet(r.deleted_at) =>
                \E q \in db'[s.table] :
                    q[s.key] = r[s.key] /\ q.deleted_at = r.deleted_at
       /\ \A s \in SoftDeleted : \A q, r \in db'[s.table] : q[s.key] = r[s.key] => q = r
       /\ (Answered /\ DeletesDeleted(db, last')) => last'.resp.status = 404]_vars

\* The owner of a deleted project asks to delete it again and gets 404.
C26_Witness ==
    /\ DeletesDeleted(db, last)
    /\ last.op = "delete_project"
    /\ last.resp.status = 404
    /\ \E p \in db.projects :
        p.project_id = last.req.project_id /\ p.owner_id = CallerId(last)

(***************************************************************************)
(* C27: tasks of deleted lanes.                                            *)
(***************************************************************************)
\* C27: in every reachable state, every non-deleted task of a non-deleted
\* project references a non-deleted lane.
C27_LiveTaskInLiveLane ==
    \A t \in Live(db.tasks) :
        (\E p \in Live(db.projects) : p.project_id = t.project_id) =>
            LiveLane(db, t.project_swim_lane_id) # {}

\* get_project_tasks has returned a task whose lane is deleted.
C27_Witness ==
    /\ last.op = "get_project_tasks"
    /\ last.resp.status = 200
    /\ \E t \in last.resp.body :
        \E l \in db.swim_lanes :
            l.swim_lane_id = t.project_swim_lane_id /\ IsSet(l.deleted_at)

(***************************************************************************)
(* C28: a new project has a lane.                                          *)
(***************************************************************************)
\* A request that creates a project has just answered 201.
ProjectCreated ==
    /\ Answered
    /\ last'.op \in {"create_project"} \cup ClonePaths
    /\ last'.resp.status = 201

\* C28: right after create_project, create_project_from_template or
\* create_project_from_saved_template answers 201, the new project has at
\* least one non-deleted lane.
C28_NewProjectHasLane ==
    [][ProjectCreated => Live(LanesIn(db', last'.resp.body.project_id)) # {}]_vars

\* What holds: the new project has a lane unless it is a clone with
\* include_statuses of a source without non-deleted lanes, and then it has
\* none.
C28_LaneUnlessSourceHasNone ==
    [][ProjectCreated =>
        LET lanes == Live(LanesIn(db', last'.resp.body.project_id))
        IN IF /\ last'.op = "create_project_from_template"
              /\ last'.req.data.include_statuses
              /\ Live(LanesIn(db, last'.req.data.source_project_id)) = {}
           THEN lanes = {}
           ELSE lanes # {}]_vars

\* A clone with include_statuses answered 201 and its project has no lane.
C28_Witness ==
    /\ last.op = "create_project_from_template"
    /\ last.resp.status = 201
    /\ last.req.data.include_statuses
    /\ LanesIn(db, last.resp.body.project_id) = {}

(***************************************************************************)
(* C29: direct clone against snapshot followed by expansion.               *)
(***************************************************************************)
\* Project project_id of storage d without its identifiers: the roles
\* list, the lanes, the user-roles, and the tasks with the lane they are in.
ProjectView(d, project_id) ==
    [roles |-> RolesList(CHOOSE p \in d.projects : p.project_id = project_id),
     lanes |-> {[name |-> l.name, order |-> l.order] : l \in LanesIn(d, project_id)},
     user_roles |-> {[user_id |-> r.user_id, role |-> r.role] :
                        r \in {x \in d.user_roles : x.project_id = project_id}},
     tasks |-> {[title |-> t.title, description |-> t.description,
                 assigned_to |-> t.assigned_to,
                 lane |-> {[name |-> l.name, order |-> l.order] :
                              l \in LaneRowsOf(d, t)}] : t \in TasksIn(d, project_id)}]

\* The project a direct clone of project_id with flags o makes.
DirectClone(d, project_id, o) ==
    LET r == create_project_from_template(
                 d, Owner, [source_project_id |-> project_id] @@ CloneData("P", o))
    IN ProjectView(r.db, r.resp.body.project_id)

\* The project a snapshot of project_id with flags o, expanded at once
\* with the same keep_assignees, makes.
SnapshotThenExpand(d, project_id, o) ==
    LET s == create_template_from_project(
                 d, Owner, [source_project_id |-> project_id, description |-> None]
                              @@ CloneData("T", o))
        r == create_project_from_saved_template(
                 s.db, Owner, [name |-> "P", template_id |-> s.resp.body.template_id,
                               keep_assignees |-> o.keep_assignees])
    IN ProjectView(r.db, r.resp.body.project_id)

\* The non-deleted projects of the owner.
OwnedLive(d) == {p.project_id : p \in {x \in Live(d.projects) : x.owner_id = 1}}

\* C29: in every reachable state, for every project the caller owns and
\* every flag vector, the direct clone and the snapshot expanded at once
\* make the same project up to identifiers: same roles list, lanes,
\* user-roles and tasks.
C29_CloneEqualsSnapshotExpand ==
    \A project_id \in OwnedLive(db), o \in OwnerCloneOptions :
        DirectClone(db, project_id, o) = SnapshotThenExpand(db, project_id, o)

\* A task of the source is assigned to a user without a user-role in the
\* project: with every flag set the direct clone keeps the assignee and the
\* expansion of the snapshot drops it.
C29_Witness ==
    /\ last.op = "update_task"
    /\ last.resp.status = 200
    /\ LET o == Flags(TRUE, TRUE, TRUE, TRUE, TRUE)
           project_id == last.resp.body.project_id
       IN /\ project_id \in OwnedLive(db)
          /\ \E t \in DirectClone(db, project_id, o).tasks : IsSet(t.assigned_to)
          /\ Unassigned(SnapshotThenExpand(db, project_id, o).tasks)

(***************************************************************************)
(* C30: clones and snapshots do not write their source.                    *)
(***************************************************************************)
\* A clone, a snapshot or an expansion has just been answered.
CopyAnswered ==
    Answered /\ last'.op \in ClonePaths \cup {"create_template_from_project"}

\* C30: a clone, a snapshot or an expansion leaves every stored row as it
\* was: the source project, its lanes, tasks and user-roles, the source
\* template, the users and the rows of every other project.  What it adds
\* is the new template, or the new project and rows of the new project.
C30_SourceUntouched ==
    [][CopyAnswered =>
        /\ \A n \in DOMAIN db \ {"now"} : db[n] \subseteq db'[n]
        /\ db'.users = db.users
        /\ IF last'.resp.status # 201 THEN db' = db
           ELSE IF last'.op = "create_template_from_project"
           THEN /\ db'.templates \ db.templates = {last'.resp.body}
                /\ \A n \in DOMAIN db \ {"now", "templates"} : db'[n] = db[n]
           ELSE /\ db'.templates = db.templates
                /\ db'.projects \ db.projects = {last'.resp.body}
                /\ \A p \in db.projects : p.project_id # last'.resp.body.project_id
                /\ \A n \in {"swim_lanes", "user_roles", "tasks"} :
                     \A r \in db'[n] \ db[n] : r.project_id = last'.resp.body.project_id]_vars

\* A clone has added lanes, user-roles and tasks to its new project.
C30_Witness ==
    /\ last.op = "create_project_from_template"
    /\ last.resp.status = 201
    /\ LanesIn(db, last.resp.body.project_id) # {}
    /\ RolesAdded(db, last) # {}
    /\ TasksIn(db, last.resp.body.project_id) # {}
    /\ TasksIn(db, last.req.data.source_project_id) # {}
====
